---- MODULE Spec2Model ----
(***************************************************************************)
(* A model of main.py of MinecreaftModsTranslator: the classifier          *)
(* (ModProcessor.analyze_jar), the archive rewriter (_patch_jar), the      *)
(* backup manager (_create_backup, _restore_backup) and the per-container  *)
(* transaction (process_mod) driven by Application.run_translate_mode,     *)
(* the concurrent scan (scan_mods) and the Translator with its cache.      *)
(*                                                                         *)
(* Text is modelled character by character: an entry name, a file name or  *)
(* a locale code is a sequence of one-character strings, so that lower(),  *)
(* upper(), endswith(), "in" and rsplit() are computed as Python computes  *)
(* them.                                                                   *)
(***************************************************************************)
EXTENDS Naturals, Sequences, FiniteSets, TLC

VARIABLES
  fs,             \* the mods folder: container name -> its three paths
  pc,             \* position of the running process ("idle": no process)
  target_lang,    \* run_translate_mode: the chosen target locale
  backup_option,  \* run_translate_mode: "keep" | "delete_success" | "delete_all"
  queue,          \* run_translate_mode: mods_to_translate, sorted
  idx,            \* run_translate_mode: position of the for loop in queue
  patches,        \* process_mod: the patch set built in memory
  ret,            \* process_mod: what the call returned (or that it raised)
  hist,           \* history of the backup of each container and of the current call
  inp,            \* the arguments of a call of a function (SpecAnalyze, SpecPatch, ...)
  out,            \* the result of that call
  future_to_jar,  \* scan_mods: the containers whose future as_completed has not yielded
  mods_to_translate, \* scan_mods: (jar, msg) of the results with status 0
  mods_skipped,   \* scan_mods: (jar, msg) of the other results
  results,        \* run_translate_mode: results['success'] and results['failed']
  cache           \* Translator.cache

\* The locals of scan_mods.
scanv == <<future_to_jar, mods_to_translate, mods_skipped>>

vars == <<fs, pc, target_lang, backup_option, queue, idx, patches, ret, hist, inp, out,
          future_to_jar, mods_to_translate, mods_skipped, results, cache>>

(***************************************************************************)
(* Characters and Python's str operations.                                 *)
(***************************************************************************)
\* The characters used, in code point order.
Alphabet == <<"-",".","/","0","1","2","3","4","5","6","7","8","9","A","B","C","D","E","F","G","H","I","J","K","L","M","N","O","P","Q","R","S","T","U","V","W","X","Y","Z","_","a","b","c","d","e","f","g","h","i","j","k","l","m","n","o","p","q","r","s","t","u","v","w","x","y","z">>

Chars == {Alphabet[i] : i \in 1..Len(Alphabet)}

\* ord(c), up to an order-preserving renumbering.
CharCode == [c \in Chars |-> CHOOSE i \in 1..Len(Alphabet) : Alphabet[i] = c]

\* The positions of "A" and "a" in Alphabet, and of "Z" and "z".
UpperA == CharCode["A"]
UpperZ == CharCode["Z"]
LowerA == CharCode["a"]
LowerZ == CharCode["z"]

\* str.lower() of one character and of a string.
LowerChar(c) ==
  IF CharCode[c] >= UpperA /\ CharCode[c] <= UpperZ
  THEN Alphabet[CharCode[c] + (LowerA - UpperA)] ELSE c

Lower(s) == [i \in 1..Len(s) |-> LowerChar(s[i])]

\* str.upper() of one character and of a string.
UpperChar(c) ==
  IF CharCode[c] >= LowerA /\ CharCode[c] <= LowerZ
  THEN Alphabet[CharCode[c] - (LowerA - UpperA)] ELSE c

Upper(s) == [i \in 1..Len(s) |-> UpperChar(s[i])]

\* s.endswith(suf)
EndsWith(s, suf) ==
  /\ Len(suf) <= Len(s)
  /\ SubSeq(s, Len(s) - Len(suf) + 1, Len(s)) = suf

\* sub in s
Contains(s, sub) ==
  \E i \in 1..(Len(s) + 1) :
    /\ i + Len(sub) - 1 <= Len(s)
    /\ SubSeq(s, i, i + Len(sub) - 1) = sub

\* The position of the last "/" of s, 0 when there is none.
LastSlash(s) ==
  IF \E i \in 1..Len(s) : s[i] = "/"
  THEN CHOOSE i \in 1..Len(s) : s[i] = "/" /\ \A j \in (i + 1)..Len(s) : s[j] # "/"
  ELSE 0

\* s.rsplit('/', 1)[0]
RSplitHead(s) == IF LastSlash(s) = 0 THEN s ELSE SubSeq(s, 1, LastSlash(s) - 1)

\* a < b, Python's comparison of two strings
RECURSIVE StrLess(_, _)
StrLess(a, b) ==
  IF Len(b) = 0 THEN FALSE
  ELSE IF Len(a) = 0 THEN TRUE
  ELSE IF a[1] # b[1] THEN CharCode[a[1]] < CharCode[b[1]]
  ELSE StrLess(Tail(a), Tail(b))

(***************************************************************************)
(* String literals of main.py.                                             *)
(***************************************************************************)
S_lang_dir == <<"/","l","a","n","g","/">>
S_json == <<".","j","s","o","n">>
S_en_us_json == <<"e","n","_","u","s",".","j","s","o","n">>
S_lang_en_us_json == <<"/","l","a","n","g","/","e","n","_","u","s",".","j","s","o","n">>
S_fabric_mod_json == <<"f","a","b","r","i","c",".","m","o","d",".","j","s","o","n">>
S_textures_gui == <<"t","e","x","t","u","r","e","s","/","g","u","i">>
S_patchouli_books == <<"p","a","t","c","h","o","u","l","i","_","b","o","o","k","s">>
S_advancements == <<"a","d","v","a","n","c","e","m","e","n","t","s">>
S_META_INF == <<"M","E","T","A","-","I","N","F">>
S_SF == <<".","S","F">>
S_RSA == <<".","R","S","A">>
S_DSA == <<".","D","S","A">>
S_EC == <<".","E","C">>

\* IGNORED_MODS
IGNORED_MODS ==
  << <<"f","a","b","r","i","c","-","a","p","i">>,
     <<"f","a","b","r","i","c","-","l","o","a","d","e","r">>,
     <<"s","o","d","i","u","m">>,
     <<"i","r","i","s">>,
     <<"l","i","t","h","i","u","m">>,
     <<"i","n","d","i","u","m">>,
     <<"c","2","m","e">>,
     <<"c","l","o","t","h","-","c","o","n","f","i","g">>,
     <<"a","r","c","h","i","t","e","c","t","u","r","y">>,
     <<"g","e","c","k","o","l","i","b">>,
     <<"m","o","d","e","r","n","f","i","x">>,
     <<"m","o","d","m","e","n","u">>,
     <<"f","o","r","g","e">>,
     <<"m","i","n","e","c","r","a","f","t">>,
     <<"b","c","l","i","b">>,
     <<"b","e","t","t","e","r","e","n","d">>,
     <<"b","e","t","t","e","r","n","e","t","h","e","r">>,
     <<"p","o","r","t","i","n","g","_","l","i","b">>,
     <<"p","u","z","z","l","e","s","l","i","b">>,
     <<"b","o","o","k","s","h","e","l","f">>,
     <<"m","o","o","n","l","i","g","h","t">>,
     <<"c","a","r","d","i","n","a","l","-","c","o","m","p","o","n","e","n","t","s">>,
     <<"o","w","o","-","l","i","b">>,
     <<"p","e","h","k","u","i">>,
     <<"s","p","e","l","l","_","e","n","g","i","n","e">>,
     <<"r","e","s","o","u","r","c","e","f","u","l","l","i","b">>,
     <<"y","u","n","g","s","a","p","i">>,
     <<"a","t","t","r","i","b","u","t","e","f","i","x">> >>

(***************************************************************************)
(* Entry names, container file names and locale codes the model draws its  *)
(* inputs from.                                                            *)
(***************************************************************************)
P_manifest == <<"f","a","b","r","i","c",".","m","o","d",".","j","s","o","n">>
P_en_us == <<"a","/","l","a","n","g","/","e","n","_","u","s",".","j","s","o","n">>
P_x_en_us == <<"a","/","l","a","n","g","/","x","_","e","n","_","u","s",".","j","s","o","n">>
P_zh_tw == <<"a","/","l","a","n","g","/","z","h","_","t","w",".","j","s","o","n">>
P_ZH_TW == <<"a","/","L","a","n","g","/","Z","H","_","T","W",".","J","S","O","N">>
P_fr_fr == <<"a","/","l","a","n","g","/","f","r","_","f","r",".","j","s","o","n">>
P_gui == <<"a","/","t","e","x","t","u","r","e","s","/","g","u","i","/","i",".","p","n","g">>
P_books == <<"a","/","p","a","t","c","h","o","u","l","i","_","b","o","o","k","s","/","b">>
P_adv == <<"a","/","a","d","v","a","n","c","e","m","e","n","t","s","/","r">>
P_sig == <<"M","E","T","A","-","I","N","F","/","M",".","S","F">>
P_sig_lc == <<"m","e","t","a","-","i","n","f","/","m",".","r","s","a">>
P_mf == <<"M","E","T","A","-","I","N","F","/","M","A","N","I","F","E","S","T",".","M","F">>
P_class == <<"a","/","M","a","i","n",".","c","l","a","s","s">>
P_b_en_us == <<"b","/","l","a","n","g","/","e","n","_","u","s",".","j","s","o","n">>
P_EN_US == <<"a","/","l","a","n","g","/","E","N","_","U","S",".","j","s","o","n">>
J_ModA == <<"M","o","d","A",".","j","a","r">>
J_modb == <<"m","o","d","b",".","j","a","r">>
J_fabric_api == <<"F","a","b","r","i","c","-","A","P","I","-","x",".","j","a","r">>
L_zh_tw == <<"z","h","_","t","w">>
L_zh_cn == <<"z","h","_","c","n">>
L_zh_TW == <<"z","h","_","T","W">>

(***************************************************************************)
(* File contents.  The bytes of an entry are modelled by what json.load    *)
(* makes of them: a JSON value, or bytes json.load rejects.                *)
(***************************************************************************)
JObj(m)   == [t |-> "obj", m |-> m]
JList(xs) == [t |-> "list", xs |-> xs]
JStr(s)   == [t |-> "str", s |-> s]
JBool(b)  == [t |-> "bool", b |-> b]
JNum      == [t |-> "num"]
JNull     == [t |-> "null"]
\* Bytes that are no JSON text (json.JSONDecodeError or UnicodeDecodeError).
Raw(id)   == [t |-> "raw", id |-> id]

\* {} of Python
EmptyDict == JObj(<<>>)

\* The three locale-metadata keys.
MetaKeys == {"language", "language.code", "language.region"}

\* A resource with one translatable key, and one with metadata only.
BaseWithKeys == JObj(("language" :> JStr("English")) @@ ("k1" :> JStr("Hello")))
BaseMetaOnly == JObj(("language" :> JStr("English")))

\* An archive entry, and a file: an archive whose bytes are all there
\* (complete), or the truncated bytes of one (zipfile.BadZipFile on opening).
Entry(name, data) == [name |-> name, data |-> data]
Archive(entries)  == [entries |-> entries, complete |-> TRUE]
Truncated(file)   == [entries |-> file.entries, complete |-> FALSE]
\* A path at which there is no file.
NoFile            == [absent |-> TRUE]

\* No call and no result: the value of ret outside process_mod, and of inp
\* and out outside the specifications of the pure functions.
NoCall == [fn |-> "none"]

\* ZipFile.namelist()
namelist(file) == [i \in 1..Len(file.entries) |-> file.entries[i].name]

\* ZipFile.open(name) / ZipFile.read(name): the bytes of the entry of that name
ReadEntry(file, name) ==
  file.entries[CHOOSE i \in 1..Len(file.entries) : file.entries[i].name = name].data

\* x in list
InSeq(x, s) == \E i \in 1..Len(s) : s[i] = x

(***************************************************************************)
(* ModProcessor.analyze_jar                                                *)
(***************************************************************************)
Result(jar, status, msg) == [jar |-> jar, status |-> status, msg |-> msg]

\* dict.get(key, default); the caller has checked that d is a dict
DictGet(d, key, default) == IF key \in DOMAIN d.m THEN d.m[key] ELSE default

\* Lines 238-244: "api" when the manifest declares an API, "none" when it does
\* not or is malformed, "raise" when an exception leaves the inner try
\* (.get of a value that is no dict: AttributeError).
ManifestCheck(data) ==
  IF data.t = "raw" THEN "none"
  ELSE IF data.t # "obj" THEN "raise"
  ELSE LET custom == DictGet(data, "custom", EmptyDict) IN
       IF custom.t # "obj" THEN "raise"
       ELSE LET modmenu == DictGet(custom, "modmenu", EmptyDict) IN
            IF modmenu.t # "obj" THEN "raise"
            ELSE IF DictGet(modmenu, "api", JNull) = JBool(TRUE) THEN "api"
            ELSE "none"

\* Lines 258-263: [k for k in en_data if k not in (...)] is non-empty
\* ("keys"), empty ("empty"), json.load failed ("malformed"), or iterating
\* en_data raised TypeError ("raise").
BaseCheck(data) ==
  CASE data.t = "raw"  -> "malformed"
    [] data.t = "obj"  -> IF DOMAIN data.m \ MetaKeys # {} THEN "keys" ELSE "empty"
    [] data.t = "list" -> IF \E i \in 1..Len(data.xs) :
                               ~(data.xs[i].t = "str" /\ data.xs[i].s \in MetaKeys)
                          THEN "keys" ELSE "empty"
    [] data.t = "str"  -> IF data.s # "" THEN "keys" ELSE "empty"
    [] OTHER           -> "raise"

\* Line 247
lang_files(file_list) ==
  SelectSeq(file_list, LAMBDA f : Contains(Lower(f), S_lang_dir) /\ EndsWith(Lower(f), S_json))

\* Line 248: the first lang file whose name ends with en_us.json, <<>> for None
en_us_path(file_list) ==
  LET cand == SelectSeq(lang_files(file_list), LAMBDA f : EndsWith(Lower(f), S_en_us_json))
  IN  IF Len(cand) = 0 THEN <<>> ELSE cand[1]

\* Line 253
has_target(file_list, tl) ==
  \E i \in 1..Len(lang_files(file_list)) :
    Contains(Lower(lang_files(file_list)[i]), <<"/">> \o tl \o S_json)

\* Lines 267-272
is_content_mod(file_list) ==
  \/ Len(lang_files(file_list)) > 1
  \/ \E i \in 1..Len(file_list) : Contains(Lower(file_list[i]), S_textures_gui)
  \/ \E i \in 1..Len(file_list) : Contains(Lower(file_list[i]), S_patchouli_books)
  \/ \E i \in 1..Len(file_list) : Contains(Lower(file_list[i]), S_advancements)

\* The denylist test without lower(): the file name is compared as written.
is_ignored_case_sensitive(jar_name) ==
  \E i \in 1..Len(IGNORED_MODS) : Contains(jar_name, IGNORED_MODS[i])

\* Line 229
is_ignored(jar_name) ==
  \E i \in 1..Len(IGNORED_MODS) : Contains(Lower(jar_name), IGNORED_MODS[i])

\* An exception that leaves a block of code, in place of its result.
Exc == [exc |-> TRUE]
IsRaised(r) == "exc" \in DOMAIN r

\* Lines 232-276: the body of the outer try.  Opening a truncated archive
\* raises zipfile.BadZipFile; ManifestCheck and BaseCheck tell when an
\* exception leaves the inner try blocks.
analyze_try(jar_name, file, tl) ==
  IF ~file.complete THEN Exc
  ELSE
    LET file_list == namelist(file)
        manifest  == IF InSeq(S_fabric_mod_json, file_list)
                     THEN ManifestCheck(ReadEntry(file, S_fabric_mod_json))
                     ELSE "none"
        en_us     == en_us_path(file_list)
    IN
    IF manifest = "api" THEN Result(jar_name, 1, "ignored (author marked as API)")
    ELSE IF manifest = "raise" THEN Exc
    ELSE IF en_us = <<>> THEN Result(jar_name, 1, "missing en_us.json")
    ELSE IF has_target(file_list, tl) THEN Result(jar_name, 1, "already has <target_lang>.json")
    ELSE
      LET base == BaseCheck(ReadEntry(file, en_us)) IN
      IF base = "empty" THEN Result(jar_name, 1, "en_us.json has no translatable content")
      ELSE IF base = "malformed" THEN Result(jar_name, 1, "en_us.json is malformed")
      ELSE IF base = "raise" THEN Exc
      ELSE IF ~is_content_mod(file_list)
           THEN Result(jar_name, 1, "likely API/library (no content footprints)")
      ELSE Result(jar_name, 0, "needs translation")

\* analyze_jar without the except clause of lines 277-278.
analyze_jar_propagating(jar_name, file, tl) ==
  IF is_ignored(jar_name) THEN Result(jar_name, 1, "ignored (core/library mod)")
  ELSE analyze_try(jar_name, file, tl)

\* Lines 227-278: the denylist test, the outer try, and its except clause,
\* which turns any exception into the result "scan error: <message>".
analyze_jar(jar_name, file, tl) ==
  IF is_ignored(jar_name) THEN Result(jar_name, 1, "ignored (core/library mod)")
  ELSE LET r == analyze_try(jar_name, file, tl)
       IN  IF IsRaised(r) THEN Result(jar_name, 1, "scan error") ELSE r

(***************************************************************************)
(* ModProcessor._patch_jar: the entries written to the temporary archive.  *)
(* A patch set is a dict: a sequence of entries with distinct names, in    *)
(* insertion order.                                                        *)
(***************************************************************************)
\* The filter without upper(): it compares the name as it is written.
is_signature_case_sensitive(name) ==
  /\ Contains(name, S_META_INF)
  /\ \/ EndsWith(name, S_SF)
     \/ EndsWith(name, S_RSA)
     \/ EndsWith(name, S_DSA)
     \/ EndsWith(name, S_EC)

\* Line 304: the signature filter
is_signature(name) ==
  /\ Contains(Upper(name), S_META_INF)
  /\ \/ EndsWith(Upper(name), S_SF)
     \/ EndsWith(Upper(name), S_RSA)
     \/ EndsWith(Upper(name), S_DSA)
     \/ EndsWith(Upper(name), S_EC)

\* Line 300: sorted(src.infolist(), key=lambda i: i.filename), by insertion
RECURSIVE InsertByName(_, _)
InsertByName(e, sorted) ==
  IF Len(sorted) = 0 THEN <<e>>
  ELSE IF StrLess(e.name, sorted[1].name) THEN <<e>> \o sorted
  ELSE <<sorted[1]>> \o InsertByName(e, Tail(sorted))

RECURSIVE infolist_sorted(_)
infolist_sorted(entries) ==
  IF Len(entries) = 0 THEN <<>>
  ELSE InsertByName(entries[Len(entries)], infolist_sorted(SubSeq(entries, 1, Len(entries) - 1)))

\* name in patches
InPatches(name, ps) == \E i \in 1..Len(ps) : ps[i].name = name

\* patches[name]
PatchData(name, ps) == ps[CHOOSE i \in 1..Len(ps) : ps[i].name = name].data

\* The rewrite without the sorted() of line 300: the entries are written in
\* the order of the original archive.
patched_entries_unsorted(src_entries, ps) ==
  LET kept     == SelectSeq(src_entries, LAMBDA e : ~is_signature(e.name))
      written  == [i \in 1..Len(kept) |->
                     IF InPatches(kept[i].name, ps)
                     THEN Entry(kept[i].name, PatchData(kept[i].name, ps))
                     ELSE kept[i]]
      leftover == SelectSeq(ps, LAMBDA q : \A i \in 1..Len(kept) : kept[i].name # q.name)
  IN  written \o leftover

\* The rewrite without lines 315-316: the new files are not added.
patched_entries_without_new(src_entries, ps) ==
  LET kept == SelectSeq(infolist_sorted(src_entries), LAMBDA e : ~is_signature(e.name))
  IN  [i \in 1..Len(kept) |->
         IF InPatches(kept[i].name, ps)
         THEN Entry(kept[i].name, PatchData(kept[i].name, ps))
         ELSE kept[i]]

\* Lines 302-316: the loop over the sorted originals, then the patches that
\* no retained original popped.
patched_entries(src_entries, ps) ==
  LET kept     == SelectSeq(infolist_sorted(src_entries), LAMBDA e : ~is_signature(e.name))
      written  == [i \in 1..Len(kept) |->
                     IF InPatches(kept[i].name, ps)
                     THEN Entry(kept[i].name, PatchData(kept[i].name, ps))
                     ELSE kept[i]]
      leftover == SelectSeq(ps, LAMBDA q : \A i \in 1..Len(kept) : kept[i].name # q.name)
  IN  written \o leftover

(***************************************************************************)
(* Translator.  A text is a sequence of characters; a character outside    *)
(* ASCII is named by its code point ("u9285" is U+9285).                   *)
(***************************************************************************)
\* The character "§" (U+00A7).
SECT == "u00A7"

Digits == {Alphabet[i] : i \in CharCode["0"]..CharCode["9"]}

Letters == {Alphabet[i] : i \in (UpperA..UpperZ) \cup (LowerA..LowerZ)}

\* Line 87: [0-9a-fk-or]
ColorCodes == Digits \cup {"a","b","c","d","e","f","k","l","m","n","o","r"}

\* Line 87: [a-zA-Z0-9_]
IdentChars == Letters \cup Digits \cup {"_"}

\* \s, restricted to the space.
Spaces == {" "}

\* str.lower() of a text that may hold characters outside Alphabet.
LowerText(s) == [i \in 1..Len(s) |-> IF s[i] \in Chars THEN LowerChar(s[i]) ELSE s[i]]

\* The character of s at position i, "" outside s.
At(s, i) == IF i >= 1 /\ i <= Len(s) THEN s[i] ELSE ""

\* s[i:].startswith(sub)
StartsAt(s, i, sub) ==
  /\ i >= 1
  /\ i + Len(sub) - 1 <= Len(s)
  /\ SubSeq(s, i, i + Len(sub) - 1) = sub

RECURSIVE RunLen(_, _, _)
\* The number of consecutive characters of s from position i on that are in class:
\* what a greedy [class]* takes.
RunLen(s, i, class) ==
  IF i <= Len(s) /\ s[i] \in class THEN 1 + RunLen(s, i + 1, class) ELSE 0

\* Line 87: the length of the match of the pattern at position i, 0 when
\* there is none.  %[sd] is %[0-9]*\$?[sd] without digits and without "$".
MatchLen(s, i) ==
  IF s[i] = SECT
  THEN IF At(s, i + 1) \in ColorCodes THEN 2 ELSE 0
  ELSE IF s[i] = "%"
  THEN LET j == i + 1 + RunLen(s, i + 1, Digits)
           k == IF At(s, j) = "$" THEN j + 1 ELSE j
       IN  IF At(s, k) \in {"s", "d"} THEN k - i + 1 ELSE 0
  ELSE IF s[i] = "{"
  THEN LET w == RunLen(s, i + 1, IdentChars)
       IN  IF w >= 1 /\ At(s, i + 1 + w) = "}" THEN w + 2 ELSE 0
  ELSE 0

RECURSIVE Decimal(_)
\* str(n)
Decimal(n) ==
  IF n < 10 THEN <<Alphabet[CharCode["0"] + n]>>
  ELSE Decimal(n \div 10) \o <<Alphabet[CharCode["0"] + (n % 10)]>>

\* Line 90: f"__FMT{len(placeholders)}__"
FmtKey(n) == <<"_","_","F","M","T">> \o Decimal(n) \o <<"_","_">>

RECURSIVE replace_match(_, _, _)
\* Lines 89-94: pattern.sub(replace_match, text) from position i on, with the
\* placeholders recorded so far.  placeholders is a dict: a sequence of
\* [key, value] with distinct keys, in insertion order.
replace_match(s, i, placeholders) ==
  IF i > Len(s) THEN [text |-> <<>>, placeholders |-> placeholders]
  ELSE LET n == MatchLen(s, i) IN
       IF n = 0
       THEN LET rest == replace_match(s, i + 1, placeholders)
            IN  [text |-> <<s[i]>> \o rest.text, placeholders |-> rest.placeholders]
       ELSE LET key  == FmtKey(Len(placeholders))
                rest == replace_match(s, i + n,
                          Append(placeholders, [key |-> key, value |-> SubSeq(s, i, i + n - 1)]))
            IN  [text |-> key \o rest.text, placeholders |-> rest.placeholders]

\* Lines 85-95.
_protect_formatting(text) == replace_match(text, 1, <<>>)

\* Line 98: the match of '__\s*FMT(\d+)\s*__' at position i: its length (0
\* when there is none) and its group 1.
FmtMatch(s, i) ==
  LET a == i + 2 + RunLen(s, i + 2, Spaces)
      d == RunLen(s, a + 3, Digits)
      b == a + 3 + d + RunLen(s, a + 3 + d, Spaces)
  IN  IF /\ StartsAt(s, i, <<"_","_">>)
         /\ StartsAt(s, a, <<"F","M","T">>)
         /\ d >= 1
         /\ StartsAt(s, b, <<"_","_">>)
      THEN [len |-> b + 2 - i, digits |-> SubSeq(s, a + 3, a + 2 + d)]
      ELSE [len |-> 0, digits |-> <<>>]

RECURSIVE normalize_keys(_, _)
\* Line 98: re.sub(r'__\s*FMT(\d+)\s*__', r'__FMT\1__', text) from position i on.
normalize_keys(s, i) ==
  IF i > Len(s) THEN <<>>
  ELSE LET m == FmtMatch(s, i) IN
       IF m.len = 0 THEN <<s[i]>> \o normalize_keys(s, i + 1)
       ELSE <<"_","_","F","M","T">> \o m.digits \o <<"_","_">> \o normalize_keys(s, i + m.len)

RECURSIVE str_replace(_, _, _, _)
\* s[i:].replace(old, new), old not empty.
str_replace(s, i, old, new) ==
  IF i > Len(s) THEN <<>>
  ELSE IF StartsAt(s, i, old) THEN new \o str_replace(s, i + Len(old), old, new)
  ELSE <<s[i]>> \o str_replace(s, i + 1, old, new)

RECURSIVE replace_placeholders(_, _)
\* Lines 99-100: the loop over placeholders.items().
replace_placeholders(text, placeholders) ==
  IF placeholders = <<>> THEN text
  ELSE replace_placeholders(
         str_replace(text, 1, Head(placeholders).key, Head(placeholders).value),
         Tail(placeholders))

\* Lines 97-101.
_restore_formatting(text, placeholders) ==
  replace_placeholders(normalize_keys(text, 1), placeholders)

TERMINOLOGY_zh_tw ==
  << <<<<"C","o","p","p","e","r">>, <<"u9285">>>>,
     <<<<"A","l","u","m","i","n","u","m">>, <<"u92C1">>>>,
     <<<<"A","l","u","m","i","n","i","u","m">>, <<"u92C1">>>>,
     <<<<"L","e","a","d">>, <<"u925B">>>>,
     <<<<"S","i","l","v","e","r">>, <<"u9280">>>>,
     <<<<"N","i","c","k","e","l">>, <<"u93B3">>>>,
     <<<<"U","r","a","n","i","u","m">>, <<"u923E">>>>,
     <<<<"C","o","n","s","t","a","n","t","a","n">>, <<"u5EB7","u9285">>>>,
     <<<<"E","l","e","c","t","r","u","m">>, <<"u7425","u73C0","u91D1">>>>,
     <<<<"S","t","e","e","l">>, <<"u92FC">>>>,
     <<<<"I","r","o","n">>, <<"u9435">>>>,
     <<<<"G","o","l","d">>, <<"u91D1">>>>,
     <<<<"T","i","n">>, <<"u932B">>>>,
     <<<<"Z","i","n","c">>, <<"u92C5">>>>,
     <<<<"B","r","a","s","s">>, <<"u9EC3","u9285">>>>,
     <<<<"I","n","g","o","t">>, <<"u9320">>>>,
     <<<<"O","r","e">>, <<"u7926">>>>,
     <<<<"B","l","o","c","k">>, <<"u65B9","u584A">>>>,
     <<<<"P","l","a","t","e">>, <<"u677F">>>>,
     <<<<"D","u","s","t">>, <<"u7C89">>>>,
     <<<<"N","u","g","g","e","t">>, <<"u7C92">>>>,
     <<<<"S","t","i","c","k">>, <<"u68D2">>>>,
     <<<<"R","o","d">>, <<"u687F">>>>,
     <<<<"T","o","o","l">>, <<"u5DE5","u5177">>>>,
     <<<<"M","a","c","h","i","n","e">>, <<"u6A5F","u5668">>>>,
     <<<<"G","e","n","e","r","a","t","o","r">>, <<"u767C","u96FB","u6A5F">>>>,
     <<<<"E","n","g","i","n","e","e","r">>, <<"u5DE5","u7A0B","u5E2B">>>>,
     <<<<"W","o","r","k","b","e","n","c","h">>, <<"u5DE5","u4F5C","u53F0">>>>,
     <<<<"F","u","r","n","a","c","e">>, <<"u7194","u7210">>>>,
     <<<<"C","r","u","c","i","b","l","e">>, <<"u5769","u581D">>>>,
     <<<<"C","o","n","v","e","y","o","r">>, <<"u8F38","u9001","u5E36">>>>,
     <<<<"P","u","m","p">>, <<"u6CF5">>>>,
     <<<<"T","a","n","k">>, <<"u5132","u7F50">>>>,
     <<<<"S","i","l","o">>, <<"u7B52","u5009">>>>,
     <<<<"B","a","r","r","e","l">>, <<"u6876">>>>,
     <<<<"B","u","c","k","e","t">>, <<"u6876">>>>,
     <<<<"H","e","l","m","e","t">>, <<"u982D","u76D4">>>>,
     <<<<"C","h","e","s","t","p","l","a","t","e">>, <<"u80F8","u7532">>>>,
     <<<<"L","e","g","g","i","n","g","s">>, <<"u8B77","u817F">>>>,
     <<<<"B","o","o","t","s">>, <<"u9774","u5B50">>>>,
     <<<<"F","l","u","i","d">>, <<"u6D41","u9AD4">>>>,
     <<<<"I","t","e","m">>, <<"u7269","u54C1">>>>,
     <<<<"W","i","r","e">>, <<"u96FB","u7DDA">>>>,
     <<<<"C","a","b","l","e">>, <<"u96FB","u7E9C">>>>,
     <<<<"P","i","p","e">>, <<"u7BA1">>>>,
     <<<<"M","a","n","u","a","l">>, <<"u624B","u518A">>>>,
     <<<<"P","i","c","k","a","x","e">>, <<"u93AC">>>>,
     <<<<"S","h","o","v","e","l">>, <<"u93DF">>>>,
     <<<<"A","x","e">>, <<"u65A7">>>>,
     <<<<"H","o","e">>, <<"u92E4">>>>,
     <<<<"S","w","o","r","d">>, <<"u528D">>>> >>

TERMINOLOGY_zh_cn ==
  << <<<<"C","o","p","p","e","r">>, <<"u94DC">>>>,
     <<<<"A","l","u","m","i","n","u","m">>, <<"u94DD">>>>,
     <<<<"A","l","u","m","i","n","i","u","m">>, <<"u94DD">>>>,
     <<<<"L","e","a","d">>, <<"u94C5">>>>,
     <<<<"S","i","l","v","e","r">>, <<"u94F6">>>>,
     <<<<"N","i","c","k","e","l">>, <<"u954D">>>>,
     <<<<"U","r","a","n","i","u","m">>, <<"u94C0">>>>,
     <<<<"C","o","n","s","t","a","n","t","a","n">>, <<"u5EB7","u94DC">>>>,
     <<<<"E","l","e","c","t","r","u","m">>, <<"u7425","u73C0","u91D1">>>>,
     <<<<"S","t","e","e","l">>, <<"u94A2">>>>,
     <<<<"I","r","o","n">>, <<"u94C1">>>>,
     <<<<"G","o","l","d">>, <<"u91D1">>>>,
     <<<<"T","i","n">>, <<"u9521">>>>,
     <<<<"Z","i","n","c">>, <<"u950C">>>>,
     <<<<"B","r","a","s","s">>, <<"u9EC4","u94DC">>>>,
     <<<<"I","n","g","o","t">>, <<"u952D">>>>,
     <<<<"O","r","e">>, <<"u77FF","u77F3">>>>,
     <<<<"B","l","o","c","k">>, <<"u65B9","u5757">>>>,
     <<<<"P","l","a","t","e">>, <<"u677F">>>>,
     <<<<"D","u","s","t">>, <<"u7C89">>>>,
     <<<<"N","u","g","g","e","t">>, <<"u7C92">>>>,
     <<<<"S","t","i","c","k">>, <<"u68D2">>>>,
     <<<<"R","o","d">>, <<"u6746">>>>,
     <<<<"T","o","o","l">>, <<"u5DE5","u5177">>>>,
     <<<<"M","a","c","h","i","n","e">>, <<"u673A","u5668">>>>,
     <<<<"G","e","n","e","r","a","t","o","r">>, <<"u53D1","u7535","u673A">>>>,
     <<<<"E","n","g","i","n","e","e","r">>, <<"u5DE5","u7A0B","u5E08">>>>,
     <<<<"W","o","r","k","b","e","n","c","h">>, <<"u5DE5","u4F5C","u53F0">>>>,
     <<<<"F","u","r","n","a","c","e">>, <<"u7194","u7089">>>>,
     <<<<"C","r","u","c","i","b","l","e">>, <<"u5769","u57DA">>>>,
     <<<<"C","o","n","v","e","y","o","r">>, <<"u4F20","u9001","u5E26">>>>,
     <<<<"P","u","m","p">>, <<"u6CF5">>>>,
     <<<<"T","a","n","k">>, <<"u50A8","u7F50">>>>,
     <<<<"S","i","l","o">>, <<"u7B52","u4ED3">>>>,
     <<<<"B","a","r","r","e","l">>, <<"u6876">>>>,
     <<<<"B","u","c","k","e","t">>, <<"u6876">>>>,
     <<<<"H","e","l","m","e","t">>, <<"u5934","u76D4">>>>,
     <<<<"C","h","e","s","t","p","l","a","t","e">>, <<"u80F8","u7532">>>>,
     <<<<"L","e","g","g","i","n","g","s">>, <<"u62A4","u817F">>>>,
     <<<<"B","o","o","t","s">>, <<"u9774","u5B50">>>>,
     <<<<"F","l","u","i","d">>, <<"u6D41","u4F53">>>>,
     <<<<"I","t","e","m">>, <<"u7269","u54C1">>>>,
     <<<<"W","i","r","e">>, <<"u7535","u7EBF">>>>,
     <<<<"C","a","b","l","e">>, <<"u7535","u7F06">>>>,
     <<<<"P","i","p","e">>, <<"u7BA1">>>>,
     <<<<"M","a","n","u","a","l">>, <<"u624B","u518C">>>>,
     <<<<"P","i","c","k","a","x","e">>, <<"u9550">>>>,
     <<<<"S","h","o","v","e","l">>, <<"u94F2">>>>,
     <<<<"A","x","e">>, <<"u65A7">>>>,
     <<<<"H","o","e">>, <<"u9504">>>>,
     <<<<"S","w","o","r","d">>, <<"u5251">>>> >>

\* The characters of the translations, each named by its code point.
CJK ==
  {"u4ED3", "u4F20", "u4F53", "u4F5C", "u5009", "u50A8", "u5132", "u5177", "u518A", "u518C", "u5251", "u528D", "u53D1", "u53F0", "u54C1", "u5668", "u5757", "u5769", "u57DA", "u581D", "u584A", "u5934", "u5B50", "u5DE5", "u5E08", "u5E26", "u5E2B", "u5E36", "u5EB7", "u624B", "u62A4", "u65A7", "u65B9", "u673A", "u6746", "u677F", "u6876", "u687F", "u68D2", "u6A5F", "u6CF5", "u6D41", "u7089", "u7194", "u7210", "u7269", "u73C0", "u7425", "u7532", "u7535", "u767C", "u76D4", "u77F3", "u77FF", "u7926", "u7A0B", "u7B52", "u7BA1", "u7C89", "u7C92", "u7DDA", "u7E9C", "u7EBF", "u7F06", "u7F50", "u7FFB", "u80F8", "u817F", "u8B77", "u8F38", "u9001", "u91D1", "u923E", "u925B", "u9280", "u9285", "u92C1", "u92C5", "u92E4", "u92FC", "u9320", "u932B", "u93AC", "u93B3", "u93DF", "u9435", "u94A2", "u94C0", "u94C1", "u94C5", "u94DC", "u94DD", "u94F2", "u94F6", "u9504", "u950C", "u9521", "u952D", "u954D", "u9550", "u96FB", "u9774", "u982D", "u9AD4", "u9EC3", "u9EC4"}
TERMINOLOGY_LANGS == {L_zh_tw, L_zh_cn}

\* Lines 50-75.
TERMINOLOGY == [l \in TERMINOLOGY_LANGS |-> IF l = L_zh_tw THEN TERMINOLOGY_zh_tw ELSE TERMINOLOGY_zh_cn]

\* \w of a str pattern.
IsWordChar(c) == c \in IdentChars \/ c \in CJK

RECURSIVE by_len_reverse(_, _)
\* Line 127: sorted(terminology.keys(), key=len, reverse=True), each key with
\* its translation; the sort is stable, so keys of one length keep their order.
by_len_reverse(terminology, n) ==
  IF n = 0 THEN <<>>
  ELSE SelectSeq(terminology, LAMBDA e : Len(e[1]) = n) \o by_len_reverse(terminology, n - 1)

\* The longest key of TERMINOLOGY ("Constantan", "Chestplate").
MaxKeyLen == 10

RECURSIVE sub_word(_, _, _, _)
\* Line 130: re.sub(rf'\b{re.escape(eng)}\b', trans, s[i:], flags=re.IGNORECASE),
\* the boundaries taken in s.  A key begins and ends with a letter.
sub_word(s, i, eng, trans) ==
  IF i > Len(s) THEN <<>>
  ELSE IF /\ i + Len(eng) - 1 <= Len(s)
          /\ LowerText(SubSeq(s, i, i + Len(eng) - 1)) = LowerText(eng)
          /\ ~IsWordChar(At(s, i - 1))
          /\ ~IsWordChar(At(s, i + Len(eng)))
       THEN trans \o sub_word(s, i + Len(eng), eng, trans)
       ELSE <<s[i]>> \o sub_word(s, i + 1, eng, trans)

\* re.search(rf'\b{re.escape(eng)}\b', s, flags=re.IGNORECASE)
has_word(s, eng) ==
  \E i \in 1..Len(s) :
    /\ i + Len(eng) - 1 <= Len(s)
    /\ LowerText(SubSeq(s, i, i + Len(eng) - 1)) = LowerText(eng)
    /\ ~IsWordChar(At(s, i - 1))
    /\ ~IsWordChar(At(s, i + Len(eng)))

RECURSIVE sub_terms(_, _)
\* Lines 128-130: the loop over sorted_keys; re.sub returns a text without a
\* match as it is.
sub_terms(result, sorted_keys) ==
  IF sorted_keys = <<>> THEN result
  ELSE IF ~has_word(result, Head(sorted_keys)[1]) THEN sub_terms(result, Tail(sorted_keys))
  ELSE sub_terms(sub_word(result, 1, Head(sorted_keys)[1], Head(sorted_keys)[2]),
                 Tail(sorted_keys))

\* Lines 124-130.
substitute_terminology(text, tl) ==
  IF tl \in TERMINOLOGY_LANGS
  THEN sub_terms(text, by_len_reverse(TERMINOLOGY[tl], MaxKeyLen))
  ELSE text

\* Line 133: LANGUAGE_INFO.get(target_lang, {}).get("name", target_lang).
\* LANGUAGE_INFO is read from InteractLanguage.json; the name of a language it
\* lists is one opaque character, a language it does not list gives its code.
lang_prefix(tl) ==
  IF tl = L_zh_tw THEN <<"name(zh_tw)">>
  ELSE IF tl = L_zh_cn THEN <<"name(zh_cn)">>
  ELSE tl

\* Line 132: re.search(r'[a-zA-Z]', text)
HasLetter(text) == \E i \in 1..Len(text) : text[i] \in Letters

\* Line 134: f"[{lang_prefix}] {text}"
Tagged(text, tl) == <<"[">> \o lang_prefix(tl) \o <<"]", " ">> \o text

\* Lines 123-135.
_fallback_translate(text, tl) ==
  LET result == substitute_terminology(text, tl)
  IN  IF result = text /\ tl # <<"e","n","_","u","s">> /\ HasLetter(text)
      THEN Tagged(text, tl)
      ELSE result

\* Line 159: target_lang.replace("-", "_").lower()
fallback_lang(tl) == LowerText(str_replace(tl, 1, <<"-">>, <<"_">>))

\* Line 138: text is None or not str(text).strip()
IsBlank(v) == v.t = "null" \/ (v.t = "str" /\ \A i \in 1..Len(v.s) : v.s[i] \in Spaces)

\* Line 143: f"{source_lang}:{target_lang}:{protected_text}"
cache_key(source_lang, tl, protected_text) ==
  source_lang \o <<":">> \o tl \o <<":">> \o protected_text

\* Lines 114-121: what _google_translate_api makes of the text the service
\* answered (the joined segments).  The replacements of lines 115-118 act on
\* full-width punctuation, which the modelled answers do not hold.
google_result(text, answer) ==
  IF answer = <<>> THEN answer
  ELSE IF LowerText(text) = <<"t","r","u","e">> THEN <<"t","r","u","e">>
  ELSE IF LowerText(text) = <<"f","a","l","s","e">> THEN <<"f","a","l","s","e">>
  ELSE answer

(***************************************************************************)
(* ModProcessor._translate_files_in_memory                                 *)
(***************************************************************************)
\* A text in the target language: the registry's value for a metadata key,
\* or what Translator.translate returned for a value.
TStr(s, tl) == [t |-> "str", s |-> s, tr |-> tl]

\* str(value) for the values of a resource, by their JSON type
StrOf(v) == IF v.t = "str" THEN v.s ELSE v.t

\* Lines 137-140: None and blank text come back unchanged, everything else
\* comes back as a text.
translate(v, tl) ==
  IF v.t = "null" \/ (v.t = "str" /\ v.s \in {"", " "}) THEN v ELSE TStr(StrOf(v), tl)

\* Line 331
files_to_translate(file) ==
  SelectSeq(namelist(file), LAMBDA f : EndsWith(Lower(f), S_lang_en_us_json))

\* Line 372
target_path(path, tl) == RSplitHead(path) \o <<"/">> \o tl \o S_json

\* Lines 361-373: the target resource built from a base resource that is a dict
target_data(en_data, tl) ==
  LET keys == DOMAIN en_data.m \ MetaKeys IN
  JObj([k \in MetaKeys \cup keys |->
          IF k \in MetaKeys THEN TStr(k, tl) ELSE translate(en_data.m[k], tl)])

\* Lines 356-376 for one base resource: the entry it adds to
\* translated_contents, <<>> when it adds none (json.load or .items() raised,
\* or there is no key to translate).
translated_entry(file, path, tl) ==
  LET en_data == ReadEntry(file, path) IN
  IF en_data.t # "obj" THEN <<>>
  ELSE IF DOMAIN en_data.m \ MetaKeys = {} THEN <<>>
  ELSE <<Entry(target_path(path, tl), target_data(en_data, tl))>>

\* translated_contents[name] = data: a later assignment to the same name
\* replaces the data and keeps the position.
DictSet(d, e) ==
  IF InPatches(e.name, d)
  THEN [i \in 1..Len(d) |-> IF d[i].name = e.name THEN e ELSE d[i]]
  ELSE Append(d, e)

\* Lines 374-376 for one base resource: the message it adds to messages,
\* <<>> when it adds none (line 365: no key to translate).
translated_message(file, path, tl) ==
  LET en_data == ReadEntry(file, path) IN
  IF en_data.t # "obj" THEN <<[path |-> path, ok |-> FALSE]>>
  ELSE IF DOMAIN en_data.m \ MetaKeys = {} THEN <<>>
  ELSE <<[path |-> path, ok |-> TRUE]>>

RECURSIVE translate_messages(_, _, _)
\* messages after the loop of lines 356-376.
translate_messages(file, paths, tl) ==
  IF Len(paths) = 0 THEN <<>>
  ELSE translated_message(file, paths[1], tl) \o translate_messages(file, Tail(paths), tl)

RECURSIVE translate_files_aborting(_, _, _)
\* The loop without the try of line 357: the first resource that fails ends
\* it, and the resources after it add nothing.
translate_files_aborting(file, paths, tl) ==
  IF Len(paths) = 0 THEN <<>>
  ELSE LET before == translate_files_aborting(file, SubSeq(paths, 1, Len(paths) - 1), tl)
           new    == translated_entry(file, paths[Len(paths)], tl)
       IN  IF \E i \in 1..(Len(paths) - 1) : ReadEntry(file, paths[i]).t # "obj" THEN before
           ELSE IF new = <<>> THEN before ELSE DictSet(before, new[1])

RECURSIVE _translate_files_in_memory(_, _, _)
\* Lines 350-377: translated_contents after the loop.
_translate_files_in_memory(file, paths, tl) ==
  IF Len(paths) = 0 THEN <<>>
  ELSE LET before == _translate_files_in_memory(file, SubSeq(paths, 1, Len(paths) - 1), tl)
           new    == translated_entry(file, paths[Len(paths)], tl)
       IN  IF new = <<>> THEN before ELSE DictSet(before, new[1])

(***************************************************************************)
(* The mods folder and the process.  A container has three paths: the      *)
(* container itself (jar), jar_path.with_suffix('.jar.backup') (backup)    *)
(* and jar_path.with_suffix('.jar.tmp') (tmp).  A process is one run of    *)
(* the script; pc = "idle" when none is running.  A run that ends, is      *)
(* interrupted or dies of an exception leaves the folder as it is, and the *)
(* next run starts from it.                                                *)
(***************************************************************************)
\* The containers of the folder (Path.name of each): folder_path.glob('*.jar').
Jars == DOMAIN fs

\* The locales a run can choose, and select_backup_option's answers.
Targets == {L_zh_tw, L_zh_cn}
BackupOptions == {"keep", "delete_success", "delete_all"}

\* What a container holds before the first run: a signed mod with a base
\* resource; a mod whose only lang file is named x_en_us.json; a mod whose
\* en_us.json is a JSON list.
InitialContainers ==
  { << Entry(P_sig, Raw("sig")), Entry(P_en_us, BaseWithKeys), Entry(P_gui, Raw("gui")) >>,
    << Entry(P_x_en_us, BaseWithKeys), Entry(P_adv, Raw("adv")) >>,
    << Entry(P_en_us, JList(<<JStr("Hello")>>)), Entry(P_gui, Raw("gui")) >> }

\* History kept for the statements below, not read by the program:
\*   cur, pre    the container of the current process_mod call and its file
\*               when the call began
\*   patched     the fully patched file of that call, once the patch set is built
\*   built       the patch set of that call is complete
\*   raised      where an exception was raised inside the try of process_mod
\*   bkAtExcept  the backup file when that exception was caught
\*   rb          the last _restore_backup call: the files of the container
\*               before it and the value it returned
\*   removed     what removed the backup of cur in the last step that did
\*   exit        how the last process ended
\*   queued, results   the queue and the results of the run when it ended
\*   bk          for each container, the completed _create_backup calls since
\*               the call that created its backup (2: two or more), and the
\*               container's file at that first call
NoBackupHistory == [calls |-> 0, first |-> NoFile]

\* results = {'success': [], 'failed': []} of line 467
NoResults == [success |-> <<>>, failed |-> <<>>]

NoHistory(bk, exit) ==
  [cur |-> <<>>, pre |-> NoFile, patched |-> NoFile, built |-> FALSE, raised |-> "none",
   bkAtExcept |-> NoFile, rb |-> NoCall, removed |-> "none", exit |-> exit,
   queued |-> <<>>, results |-> NoResults, bk |-> bk]

\* No process is running: there are no locals.
NoLocals ==
  /\ pc = "idle"
  /\ target_lang = <<>>
  /\ backup_option = "keep"
  /\ queue = <<>>
  /\ idx = 0
  /\ patches = <<>>
  /\ ret = NoCall
  /\ future_to_jar = {}
  /\ mods_to_translate = <<>>
  /\ mods_skipped = <<>>
  /\ results = NoResults

\* A folder with one container.
Init ==
  /\ fs \in [{J_ModA} -> {[jar |-> Archive(es), backup |-> NoFile, tmp |-> NoFile] : es \in InitialContainers}]
  /\ NoLocals
  /\ hist = NoHistory([j \in Jars |-> NoBackupHistory], "none")
  /\ inp = NoCall
  /\ out = NoCall
  /\ cache = <<>>

\* The process ends: its variables are gone.
ProcessEnds ==
  /\ pc' = "idle"
  /\ target_lang' = <<>>
  /\ backup_option' = "keep"
  /\ queue' = <<>>
  /\ idx' = 0
  /\ patches' = <<>>
  /\ ret' = NoCall
  /\ future_to_jar' = {}
  /\ mods_to_translate' = <<>>
  /\ mods_skipped' = <<>>
  /\ results' = NoResults

\* What is left of a run that ended with the given exit.
Ended(h, exit) == [h EXCEPT !.exit = exit, !.queued = queue, !.results = results]

\* The container of the current process_mod call.
Cur == queue[idx]

\* Line 455: the containers of a list of (jar, msg), sorted by lower-cased name.
RECURSIVE SortedByLowerName(_)
SortedByLowerName(S) ==
  IF S = {} THEN <<>>
  ELSE LET first == CHOOSE j \in S : \A k \in S \ {j} : StrLess(Lower(j), Lower(k))
       IN  <<first>> \o SortedByLowerName(S \ {first})

\* Lines 444-448 and 281-286: a run in translate mode chooses the locale and
\* the backup option and calls scan_mods, which submits one analyze_jar task
\* per container to the pool.
run_translate_mode ==
  /\ pc = "idle"
  /\ \E tl \in Targets, opt \in BackupOptions :
       /\ target_lang' = tl
       /\ backup_option' = opt
  /\ pc' = "scan"
  /\ future_to_jar' = Jars
  /\ hist' = NoHistory(hist.bk, "none")
  /\ UNCHANGED <<fs, queue, idx, patches, ret, inp, out, mods_to_translate, mods_skipped,
                 results, cache>>

\* scan_mods whose loop over the futures ends while tasks are still running.
scan_returns_early ==
  /\ pc = "scan"
  /\ IF mods_to_translate = <<>>
     THEN /\ ProcessEnds
          /\ hist' = Ended(NoHistory(hist.bk, "none"), "done")
     ELSE /\ queue' = SortedByLowerName({mods_to_translate[i][1] : i \in 1..Len(mods_to_translate)})
          /\ idx' = 1
          /\ pc' = "loop"
          /\ UNCHANGED <<target_lang, backup_option, patches, ret, hist, scanv, results>>
  /\ UNCHANGED <<fs, inp, out, cache>>

\* The loop of lines 288-290 appending every result to both lists.
analyze_completes_both_lists ==
  /\ pc = "scan"
  /\ \E jar \in future_to_jar :
       LET r == analyze_jar(jar, fs[jar].jar, target_lang) IN
       /\ future_to_jar' = future_to_jar \ {jar}
       /\ mods_to_translate' = Append(mods_to_translate, <<r.jar, r.msg>>)
       /\ mods_skipped' = Append(mods_skipped, <<r.jar, r.msg>>)
  /\ UNCHANGED <<fs, pc, target_lang, backup_option, queue, idx, patches, ret, results, hist,
                 inp, out, cache>>

\* Lines 288-290: as_completed yields the future of one container, in any
\* order of completion; future.result() is what analyze_jar returned and goes
\* to one of the two lists, or it raises what analyze_jar raised, which ends
\* the run at line 572.
analyze_completes ==
  /\ pc = "scan"
  /\ \E jar \in future_to_jar :
       LET r == analyze_jar(jar, fs[jar].jar, target_lang) IN
       IF IsRaised(r)
       THEN /\ ProcessEnds
            /\ hist' = Ended(hist, "scan raised")
       ELSE /\ future_to_jar' = future_to_jar \ {jar}
            /\ mods_to_translate' = IF r.status = 0
                                    THEN Append(mods_to_translate, <<r.jar, r.msg>>)
                                    ELSE mods_to_translate
            /\ mods_skipped' = IF r.status = 0
                               THEN mods_skipped
                               ELSE Append(mods_skipped, <<r.jar, r.msg>>)
            /\ UNCHANGED <<pc, target_lang, backup_option, queue, idx, patches, ret, results, hist>>
  /\ UNCHANGED <<fs, inp, out, cache>>

\* Lines 292 and 450-467: every future has been yielded and scan_mods
\* returns; with nothing to translate the run returns at line 453, and at
\* line 465 when the user does not confirm; otherwise the list is sorted and
\* the loop begins.
scan_returns ==
  /\ pc = "scan"
  /\ future_to_jar = {}
  /\ \E confirm \in BOOLEAN :
       IF mods_to_translate = <<>> \/ ~confirm
       THEN /\ ProcessEnds
            /\ hist' = Ended(NoHistory(hist.bk, "none"), "done")
       ELSE /\ queue' = SortedByLowerName({mods_to_translate[i][1] : i \in 1..Len(mods_to_translate)})
            /\ idx' = 1
            /\ pc' = "loop"
            /\ mods_to_translate' = <<>>
            /\ mods_skipped' = <<>>
            /\ UNCHANGED <<target_lang, backup_option, patches, ret, hist, future_to_jar, results>>
  /\ UNCHANGED <<fs, inp, out, cache>>

\* Lines 468-469 and 484: the loop calls process_mod on the next container,
\* or is over and the run ends with the summary.
next_mod ==
  /\ pc = "loop"
  /\ IF idx > Len(queue)
     THEN /\ ProcessEnds
          /\ hist' = Ended(NoHistory(hist.bk, "none"), "done")
     ELSE /\ pc' = "pm_backup"
          /\ hist' = [NoHistory(hist.bk, "none") EXCEPT !.cur = Cur, !.pre = fs[Cur].jar]
          /\ UNCHANGED <<target_lang, backup_option, queue, idx, patches, ret, scanv, results>>
  /\ UNCHANGED <<fs, inp, out, cache>>

\* _create_backup that copies whether or not a backup exists.
create_backup_overwriting ==
  /\ pc = "pm_backup"
  /\ fs' = [fs EXCEPT ![Cur].backup = Truncated(fs[Cur].jar)]
  /\ pc' = "pm_copying"
  /\ UNCHANGED <<target_lang, backup_option, queue, idx, patches, ret, hist, inp, out, scanv, results, cache>>

\* Lines 379-386: with no backup file, shutil.copy2 starts writing one; with
\* one, the call returns it as it is.
_create_backup ==
  /\ pc = "pm_backup"
  /\ IF fs[Cur].backup = NoFile
     THEN /\ fs' = [fs EXCEPT ![Cur].backup = Truncated(fs[Cur].jar)]
          /\ pc' = "pm_copying"
          /\ hist' = hist
     ELSE /\ fs' = fs
          /\ pc' = "pm_try"
          /\ hist' = [hist EXCEPT !.bk[Cur].calls = IF @ = 0 THEN 0 ELSE 2]
  /\ UNCHANGED <<target_lang, backup_option, queue, idx, patches, ret, inp, out, scanv, results, cache>>

\* Line 383 completes: the backup holds the container's bytes.
copy_completes ==
  /\ pc = "pm_copying"
  /\ fs' = [fs EXCEPT ![Cur].backup = fs[Cur].jar]
  /\ pc' = "pm_try"
  /\ hist' = [hist EXCEPT !.bk[Cur] =
                IF @.calls = 0 THEN [calls |-> 1, first |-> fs[Cur].jar]
                ELSE [calls |-> 2, first |-> @.first]]
  /\ UNCHANGED <<target_lang, backup_option, queue, idx, patches, ret, inp, out, scanv, results, cache>>

\* Line 383 raises (no space, permission denied) before or while writing:
\* the call is outside the try of process_mod, so the exception reaches
\* line 572 and the process ends; what was written stays.
copy_raises ==
  /\ \/ pc = "pm_copying"
     \/ pc = "pm_backup" /\ fs[Cur].backup = NoFile
  /\ ProcessEnds
  /\ hist' = Ended(hist, "error")
  /\ UNCHANGED <<fs, inp, out, cache>>

\* Lines 326-340: the archive is read and the patch set built in memory.
build_patches ==
  /\ pc = "pm_try"
  /\ fs[Cur].jar.complete
  /\ LET file == fs[Cur].jar
         todo == files_to_translate(file)
         new  == _translate_files_in_memory(file, todo, target_lang)
     IN  IF todo = <<>>
         THEN /\ ret' = [success |-> FALSE, msg |-> "No en_us.json found (internal check)."]
              /\ pc' = "pm_return"
              /\ UNCHANGED <<patches, hist>>
         ELSE IF new = <<>>
         THEN /\ ret' = [success |-> FALSE, msg |-> "No translatable content found."]
              /\ pc' = "pm_return"
              /\ hist' = [hist EXCEPT !.built = TRUE]
              /\ UNCHANGED patches
         ELSE /\ patches' = new
              /\ pc' = "pm_patch"
              /\ hist' = [hist EXCEPT !.built = TRUE,
                                      !.patched = Archive(patched_entries(file.entries, new))]
              /\ UNCHANGED ret
  /\ UNCHANGED <<fs, target_lang, backup_option, queue, idx, inp, out, scanv, results, cache>>

\* Line 330: zipfile.ZipFile(jar_path) or a read of the archive raises.
open_raises ==
  /\ pc = "pm_try"
  /\ pc' = "pm_except"
  /\ hist' = [hist EXCEPT !.raised = "open", !.bkAtExcept = fs[Cur].backup]
  /\ UNCHANGED <<fs, target_lang, backup_option, queue, idx, patches, ret, inp, out, scanv, results, cache>>

\* Lines 295-297: _patch_jar opens the temporary archive for writing.
patch_open_tmp ==
  /\ pc = "pm_patch"
  /\ fs' = [fs EXCEPT ![Cur].tmp = Truncated(Archive(patched_entries(fs[Cur].jar.entries, patches)))]
  /\ pc' = "pm_writing"
  /\ UNCHANGED <<target_lang, backup_option, queue, idx, patches, ret, hist, inp, out, scanv, results, cache>>

\* Lines 300-316: every entry is written and the temporary archive closed.
patch_write_tmp ==
  /\ pc = "pm_writing"
  /\ fs' = [fs EXCEPT ![Cur].tmp = Archive(patched_entries(fs[Cur].jar.entries, patches))]
  /\ pc' = "pm_move"
  /\ UNCHANGED <<target_lang, backup_option, queue, idx, patches, ret, hist, inp, out, scanv, results, cache>>

\* Line 318: shutil.move renames the temporary archive over the container
\* (os.rename within one directory), and process_mod returns True.
patch_move ==
  /\ pc = "pm_move"
  /\ fs' = [fs EXCEPT ![Cur].jar = fs[Cur].tmp, ![Cur].tmp = NoFile]
  /\ ret' = [success |-> TRUE, msg |-> "ok"]
  /\ pc' = "pm_return"
  /\ UNCHANGED <<target_lang, backup_option, queue, idx, patches, hist, inp, out, scanv, results, cache>>

\* _patch_jar raises: on opening, while writing (what was written of the
\* temporary archive stays) or on the move (the container is not replaced).
patch_raises ==
  /\ pc \in {"pm_patch", "pm_writing", "pm_move"}
  /\ pc' = "pm_except"
  /\ hist' = [hist EXCEPT !.raised = pc, !.bkAtExcept = fs[Cur].backup]
  /\ UNCHANGED <<fs, target_lang, backup_option, queue, idx, patches, ret, inp, out, scanv, results, cache>>

\* Lines 388-396 on the three paths f of one container: the files after the
\* call and the value it returns.  moved tells whether shutil.move succeeds
\* (backup and container are in one directory: os.rename, which replaces the
\* container or raises and changes nothing; line 394 catches what it raises).
restore_files_copying(f, moved) ==
  IF f.backup # NoFile /\ moved THEN [f EXCEPT !.jar = f.backup] ELSE f

restore_files(f, moved) ==
  IF f.backup # NoFile /\ moved THEN [f EXCEPT !.jar = f.backup, !.backup = NoFile] ELSE f

restore_value(f, moved) == f.backup # NoFile /\ moved

\* The record of a _restore_backup call.
RestoreCall(jar, f, moved) ==
  [fn |-> "_restore_backup", jar |-> jar, before |-> f, value |-> restore_value(f, moved)]

\* _restore_backup that removes the backup without moving it.
restore_backup_removing ==
  /\ pc = "pm_except"
  /\ fs' = [fs EXCEPT ![Cur].backup = NoFile]
  /\ hist' = [hist EXCEPT !.bk[Cur] = NoBackupHistory, !.removed = "restore",
                          !.rb = RestoreCall(Cur, fs[Cur], TRUE)]
  /\ ret' = [success |-> FALSE, msg |-> "critical error"]
  /\ pc' = "pm_return"
  /\ UNCHANGED <<target_lang, backup_option, queue, idx, patches, inp, out, scanv, results, cache>>

\* Lines 345-348 and 388-396: the except clause of process_mod calls
\* _restore_backup, which moves the backup over the container when it exists
\* (moved), or whose move raises and is caught at line 394.
_restore_backup ==
  /\ pc = "pm_except"
  /\ \E moved \in BOOLEAN :
       /\ fs' = [fs EXCEPT ![Cur] = restore_files(fs[Cur], moved)]
       /\ hist' = IF restore_value(fs[Cur], moved)
                  THEN [hist EXCEPT !.bk[Cur] = NoBackupHistory, !.removed = "restore",
                                    !.rb = RestoreCall(Cur, fs[Cur], moved)]
                  ELSE [hist EXCEPT !.bk[Cur].calls = 0,
                                    !.rb = RestoreCall(Cur, fs[Cur], moved)]
  /\ ret' = [success |-> FALSE, msg |-> "critical error"]
  /\ pc' = "pm_return"
  /\ UNCHANGED <<target_lang, backup_option, queue, idx, patches, inp, out, scanv, results, cache>>

\* results['success'].append(...) or results['failed'].append(...) of lines 471-474
Recorded(res, jar, r) ==
  IF r.success THEN [res EXCEPT !.success = Append(@, jar)]
  ELSE [res EXCEPT !.failed = Append(@, <<jar, r.msg>>)]

\* The cleanup that removes the backup whatever the option and the result.
cleanup_always ==
  /\ pc = "pm_return"
  /\ results' = Recorded(results, Cur, ret)
  /\ IF fs[Cur].backup # NoFile
     THEN /\ fs' = [fs EXCEPT ![Cur].backup = NoFile]
          /\ hist' = [NoHistory([hist.bk EXCEPT ![Cur] = NoBackupHistory], "none")
                        EXCEPT !.cur = Cur,
                               !.removed = IF ret.success THEN "cleanup after success"
                                           ELSE "cleanup after failure"]
     ELSE /\ fs' = fs
          /\ hist' = NoHistory(hist.bk, "none")
  /\ idx' = idx + 1
  /\ pc' = "loop"
  /\ patches' = <<>>
  /\ ret' = NoCall
  /\ UNCHANGED <<target_lang, backup_option, queue, inp, out, scanv, cache>>

\* Lines 471-482: the result is recorded and the backup removed as the backup
\* option says (os.remove may raise OSError, caught at line 481).
after_process_mod ==
  /\ pc = "pm_return"
  /\ results' = Recorded(results, Cur, ret)
  /\ \E removed \in BOOLEAN :
       IF /\ backup_option = "delete_all" \/ (backup_option = "delete_success" /\ ret.success)
          /\ fs[Cur].backup # NoFile
          /\ removed
       THEN /\ fs' = [fs EXCEPT ![Cur].backup = NoFile]
            /\ hist' = [NoHistory([hist.bk EXCEPT ![Cur] = NoBackupHistory], "none")
                          EXCEPT !.cur = Cur,
                                 !.removed = IF ret.success THEN "cleanup after success"
                                             ELSE "cleanup after failure"]
       ELSE /\ fs' = fs
            /\ hist' = NoHistory(hist.bk, "none")
  /\ idx' = idx + 1
  /\ pc' = "loop"
  /\ patches' = <<>>
  /\ ret' = NoCall
  /\ UNCHANGED <<target_lang, backup_option, queue, inp, out, scanv, cache>>

\* Lines 566-571: the user interrupts the run (KeyboardInterrupt, which no
\* except Exception catches); the process ends where it is.
interrupt ==
  /\ pc # "idle"
  /\ ProcessEnds
  /\ hist' = Ended(hist, "interrupt")
  /\ UNCHANGED <<fs, inp, out, cache>>

\* Lines 398-417: a run in restore mode calls _restore_backup on every backup
\* file of the folder; moved[j] tells whether the move of j's backup succeeds.
restore_all_backups ==
  /\ pc = "idle"
  /\ \E j \in Jars : fs[j].backup # NoFile
  /\ \E moved \in [Jars -> BOOLEAN] :
       /\ fs' = [j \in Jars |-> restore_files(fs[j], moved[j])]
       /\ hist' = [NoHistory([j \in Jars |->
                                IF restore_value(fs[j], moved[j]) THEN NoBackupHistory
                                ELSE [hist.bk[j] EXCEPT !.calls = 0]], "done")
                     EXCEPT !.removed = IF \E j \in Jars : restore_value(fs[j], moved[j])
                                        THEN "restore_all" ELSE "none"]
  /\ UNCHANGED <<pc, target_lang, backup_option, queue, idx, patches, ret, inp, out, scanv, results, cache>>

Next ==
  \/ run_translate_mode
  \/ analyze_completes
  \/ scan_returns
  \/ next_mod
  \/ _create_backup
  \/ copy_completes
  \/ copy_raises
  \/ build_patches
  \/ open_raises
  \/ patch_open_tmp
  \/ patch_write_tmp
  \/ patch_move
  \/ patch_raises
  \/ _restore_backup
  \/ after_process_mod
  \/ interrupt
  \/ restore_all_backups

Spec == Init /\ [][Next]_vars

(***************************************************************************)
(* A batch: the first run over a folder of two containers, each a mod that *)
(* needs translation, a truncated archive, a mod whose manifest is a JSON  *)
(* list, or a mod whose en_us.json is a JSON list.                         *)
(***************************************************************************)
BatchContainers ==
  LET good == << Entry(P_en_us, BaseWithKeys), Entry(P_gui, Raw("gui")) >> IN
  { Archive(good),
    Truncated(Archive(good)),
    Archive(<< Entry(P_manifest, JList(<<>>)) >> \o good),
    Archive(<< Entry(P_en_us, JList(<<JStr("Hello")>>)), Entry(P_gui, Raw("gui")) >>) }

InitBatch ==
  /\ fs \in [{J_ModA, J_modb} -> {[jar |-> f, backup |-> NoFile, tmp |-> NoFile] : f \in BatchContainers}]
  /\ NoLocals
  /\ hist = NoHistory([j \in Jars |-> NoBackupHistory], "none")
  /\ inp = NoCall
  /\ out = NoCall
  /\ cache = <<>>

\* No run of the script has ended yet.
FirstRun == hist.exit = "none"

NextBatch ==
  \/ FirstRun /\ run_translate_mode
  \/ analyze_completes
  \/ scan_returns
  \/ next_mod
  \/ _create_backup
  \/ copy_completes
  \/ copy_raises
  \/ build_patches
  \/ open_raises
  \/ patch_open_tmp
  \/ patch_write_tmp
  \/ patch_move
  \/ patch_raises
  \/ _restore_backup
  \/ after_process_mod
  \/ interrupt
  \/ restore_all_backups

SpecBatch == InitBatch /\ [][NextBatch]_vars

(***************************************************************************)
(* Calls of the pure functions on inputs drawn from bounded sets:          *)
(* SpecAnalyze calls analyze_jar, SpecPatch computes what _patch_jar       *)
(* writes.                                                                 *)
(***************************************************************************)
\* The most entries of an input archive, and the most entries of an input
\* patch set.
MaxEntries == 3
MaxPatches == 2

\* The variables of the folder and of the running process, unused here.
NoProcess ==
  /\ fs = <<>>
  /\ target_lang = <<>>
  /\ backup_option = "keep"
  /\ queue = <<>>
  /\ idx = 0
  /\ patches = <<>>
  /\ ret = NoCall
  /\ hist = NoCall
  /\ future_to_jar = {}
  /\ mods_to_translate = <<>>
  /\ mods_skipped = <<>>
  /\ results = NoResults
  /\ cache = <<>>

\* The selection of the names of pool at the positions in S, in pool order or
\* in the reverse order.
Pick(pool, S, rev) ==
  LET sel == SelectSeq([i \in 1..Len(pool) |-> <<i, pool[i]>>], LAMBDA x : x[1] \in S)
  IN  [i \in 1..Len(sel) |-> IF rev THEN sel[Len(sel) + 1 - i][2] ELSE sel[i][2]]

\* ---- analyze_jar ----
AnalyzePool ==
  <<P_manifest, P_en_us, P_x_en_us, P_zh_tw, P_ZH_TW, P_fr_fr, P_gui, P_books, P_adv, P_sig>>

AnalyzeJars == {J_ModA, J_fabric_api}
AnalyzeTargets == {L_zh_tw, L_zh_cn, L_zh_TW}

\* Contents of fabric.mod.json
ApiManifest(b) == JObj(("custom" :> JObj(("modmenu" :> JObj(("api" :> JBool(b)))))))
ManifestShapes ==
  { Raw("malformed"), EmptyDict, ApiManifest(TRUE), ApiManifest(FALSE),
    JList(<<>>), JObj(("custom" :> JStr("x"))) }

\* Contents of a file whose name ends with en_us.json
BaseShapes ==
  { Raw("malformed"), BaseWithKeys, BaseMetaOnly, EmptyDict,
    JList(<<JStr("Hello")>>), JNum }

IsBaseName(name) == EndsWith(Lower(name), S_en_us_json)

AnalyzeData(name, msh, bsh) ==
  IF name = P_manifest THEN msh
  ELSE IF IsBaseName(name) THEN bsh
  ELSE IF EndsWith(Lower(name), S_json) THEN BaseWithKeys
  ELSE Raw("binary")

AnalyzeArchive(S, rev, msh, bsh) ==
  LET names == Pick(AnalyzePool, S, rev)
  IN  Archive([i \in 1..Len(names) |-> Entry(names[i], AnalyzeData(names[i], msh, bsh))])

\* Each archive once: the manifest and base contents vary only where such an
\* entry is present, the order only where it decides which base resource is
\* found first.
AnalyzeChoices ==
  { c \in (SUBSET (1..Len(AnalyzePool))) \X BOOLEAN \X ManifestShapes \X BaseShapes :
      /\ Cardinality(c[1]) <= MaxEntries
      /\ (c[2] => {2, 3} \subseteq c[1])
      /\ (1 \notin c[1] => c[3] = EmptyDict)
      /\ (c[1] \cap {2, 3} = {} => c[4] = EmptyDict) }

\* The archives of at most one entry also come truncated.
AnalyzeInputs ==
  { [fn |-> "analyze_jar", jar |-> j, file |-> AnalyzeArchive(c[1], c[2], c[3], c[4]), target |-> tl] :
      j \in AnalyzeJars, tl \in AnalyzeTargets, c \in AnalyzeChoices }
  \cup
  { [fn |-> "analyze_jar", jar |-> j, file |-> Truncated(AnalyzeArchive(c[1], c[2], c[3], c[4])),
     target |-> tl] :
      j \in AnalyzeJars, tl \in AnalyzeTargets,
      c \in {d \in AnalyzeChoices : Cardinality(d[1]) <= 1} }

InitAnalyze ==
  /\ NoProcess
  /\ pc = "call"
  /\ inp \in AnalyzeInputs
  /\ out = NoCall

CallAnalyze ==
  /\ pc = "call"
  /\ inp.fn = "analyze_jar"
  /\ out' = analyze_jar(inp.jar, inp.file, inp.target)
  /\ pc' = "returned"
  /\ UNCHANGED <<fs, target_lang, backup_option, queue, idx, patches, ret, hist, inp, scanv, results, cache>>

NextAnalyze == CallAnalyze

SpecAnalyze == InitAnalyze /\ [][NextAnalyze]_vars

\* ---- _patch_jar ----
\* The original entries an input archive is drawn from (not in name order),
\* and the entries an input patch set is drawn from: a new resource, a
\* replacement of an original and an entry with a signature name.
PatchPool ==
  << Entry(P_gui, Raw("gui")), Entry(P_en_us, BaseWithKeys), Entry(P_sig, Raw("sig")),
     Entry(P_class, Raw("class")), Entry(P_sig_lc, Raw("sig-lc")), Entry(P_mf, Raw("manifest")) >>

PatchEntries ==
  { Entry(P_zh_tw, Raw("new zh_tw")), Entry(P_en_us, Raw("new en_us")), Entry(P_sig, Raw("new sig")) }

\* The dicts of at most n entries of PatchEntries.
RECURSIVE PatchSets(_)
PatchSets(n) ==
  IF n = 0 THEN {<<>>}
  ELSE PatchSets(n - 1) \cup
       { Append(ps, e) : ps \in { q \in PatchSets(n - 1) : Len(q) = n - 1 },
                         e \in PatchEntries }

DistinctNames(ps) == \A i, j \in 1..Len(ps) : ps[i].name = ps[j].name => i = j

PatchInputs ==
  { [fn |-> "_patch_jar", src |-> Archive(Pick(PatchPool, S, rev)), patches |-> ps] :
      S \in { T \in SUBSET (1..Len(PatchPool)) : Cardinality(T) <= MaxEntries },
      rev \in BOOLEAN,
      ps \in { q \in PatchSets(MaxPatches) : DistinctNames(q) } }

InitPatch ==
  /\ NoProcess
  /\ pc = "call"
  /\ inp \in PatchInputs
  /\ out = NoCall

\* A successful _patch_jar: out is the file at jar_path afterwards.
CallPatchJar ==
  /\ pc = "call"
  /\ inp.fn = "_patch_jar"
  /\ out' = Archive(patched_entries(inp.src.entries, inp.patches))
  /\ pc' = "returned"
  /\ UNCHANGED <<fs, target_lang, backup_option, queue, idx, patches, ret, hist, inp, scanv, results, cache>>

NextPatch == CallPatchJar

SpecPatch == InitPatch /\ [][NextPatch]_vars

\* ---- _restore_backup ----
\* The files a path of the folder can hold when _restore_backup is called.
RestoreArchives ==
  { Archive(<< Entry(P_en_us, BaseWithKeys) >>),
    Archive(<< Entry(P_en_us, BaseWithKeys), Entry(P_zh_tw, Raw("new zh_tw")) >>) }

RestoreFolders ==
  LET whole   == RestoreArchives
      partial == {Truncated(f) : f \in RestoreArchives}
  IN  [{J_ModA, J_modb} ->
         [jar : whole \cup partial, backup : whole \cup partial \cup {NoFile},
          tmp : {NoFile}]]

InitRestore ==
  /\ fs \in {f \in RestoreFolders : f[J_modb].jar \in RestoreArchives /\ f[J_modb].backup # f[J_modb].jar}
  /\ pc = "call"
  /\ target_lang = <<>>
  /\ backup_option = "keep"
  /\ queue = <<>>
  /\ idx = 0
  /\ patches = <<>>
  /\ ret = NoCall
  /\ hist = NoCall
  /\ future_to_jar = {}
  /\ mods_to_translate = <<>>
  /\ mods_skipped = <<>>
  /\ results = NoResults
  /\ cache = <<>>
  /\ inp = [fn |-> "_restore_backup", jar |-> J_ModA]
  /\ out = NoCall

\* _restore_backup(backup_path, original_path) on the container inp.jar; hist
\* keeps the folder as it was before the call.
CallRestore ==
  /\ pc = "call"
  /\ inp.fn = "_restore_backup"
  /\ \E moved \in BOOLEAN :
       /\ fs' = [fs EXCEPT ![inp.jar] = restore_files(fs[inp.jar], moved)]
       /\ out' = RestoreCall(inp.jar, fs[inp.jar], moved)
  /\ hist' = [fn |-> "_restore_backup", folder |-> fs]
  /\ pc' = "returned"
  /\ UNCHANGED <<target_lang, backup_option, queue, idx, patches, ret, inp, scanv, results, cache>>

NextRestore == CallRestore

SpecRestore == InitRestore /\ [][NextRestore]_vars

\* ---- _translate_files_in_memory ----
\* The names of the base resources of an input archive: two directories, and
\* two names of one directory that differ in letter case.
FilesPool == <<P_en_us, P_b_en_us, P_EN_US>>

\* A resource whose values are not all texts.
BaseWithValues ==
  JObj(("language" :> JStr("English")) @@ ("k1" :> JNull) @@ ("k2" :> JNum) @@ ("k3" :> JStr(" ")))

\* Contents of a base resource.
ResourceShapes ==
  { Raw("malformed"), BaseWithKeys, BaseMetaOnly, BaseWithValues, JList(<<JStr("Hello")>>) }

FilesInputs ==
  { [fn |-> "_translate_files_in_memory",
     file |-> Archive([i \in 1..Len(names) |-> Entry(names[i], shape[names[i]])]),
     target |-> tl] :
      names \in { Pick(FilesPool, S, rev) : S \in SUBSET (1..Len(FilesPool)), rev \in BOOLEAN },
      shape \in [{P_en_us, P_b_en_us, P_EN_US} -> ResourceShapes],
      tl \in Targets }

InitFiles ==
  /\ NoProcess
  /\ pc = "call"
  /\ inp \in { i \in FilesInputs : Len(i.file.entries) <= MaxEntries }
  /\ out = NoCall

\* Lines 331 and 336: the call of process_mod.
CallTranslateFiles ==
  /\ pc = "call"
  /\ inp.fn = "_translate_files_in_memory"
  /\ LET todo == files_to_translate(inp.file)
     IN  out' = [fn |-> "_translate_files_in_memory",
                 files |-> todo,
                 contents |-> _translate_files_in_memory(inp.file, todo, inp.target),
                 messages |-> translate_messages(inp.file, todo, inp.target)]
  /\ pc' = "returned"
  /\ UNCHANGED <<fs, target_lang, backup_option, queue, idx, patches, ret, hist, inp, scanv, results, cache>>

NextFiles == CallTranslateFiles

SpecFiles == InitFiles /\ [][NextFiles]_vars

\* ---- _protect_formatting and _restore_formatting ----
\* The most pieces a text is made of.
MaxPieces == 3

\* The pieces a text is made of: tokens of each kind of line 87 and ordinary
\* text.
FormatPieces ==
  << <<"%","s">>,
     <<"%","1","$","d">>,
     <<SECT,"a">>,
     <<"{","a","}">>,
     <<"{","_","_","F","M","T","1","_","_","}">>,
     <<"x">>,
     <<" ">> >>

RECURSIVE Concat(_)
\* "".join(pieces)
Concat(pieces) == IF pieces = <<>> THEN <<>> ELSE Head(pieces) \o Concat(Tail(pieces))

FormatTexts ==
  UNION {{Concat([i \in 1..n |-> FormatPieces[c[i]]]) : c \in [1..n -> 1..Len(FormatPieces)]} : n \in 0..MaxPieces}

RECURSIVE space_keys(_, _)
\* What a translation step that puts a space after the leading and before the
\* trailing underscores of every opaque token makes of s[i:].
space_keys(s, i) ==
  IF i > Len(s) THEN <<>>
  ELSE LET m == FmtMatch(s, i) IN
       IF m.len = 0 THEN <<s[i]>> \o space_keys(s, i + 1)
       ELSE <<"_","_"," ","F","M","T">> \o m.digits \o <<" ","_","_">> \o space_keys(s, i + m.len)

FormatInputs ==
  {[fn |-> "_protect_formatting", text |-> t, spaced |-> b] : t \in FormatTexts, b \in BOOLEAN}

InitFormat ==
  /\ NoProcess
  /\ pc = "call"
  /\ inp \in FormatInputs
  /\ out = NoCall

\* Lines 142 and 160 (145, 151): the text is masked, the masked text passes
\* through the translation step and is restored.
CallFormat ==
  /\ pc = "call"
  /\ inp.fn = "_protect_formatting"
  /\ LET p == _protect_formatting(inp.text)
         t == IF inp.spaced THEN space_keys(p.text, 1) ELSE p.text
     IN  out' = [fn |-> "_restore_formatting", protected |-> p.text,
                 placeholders |-> p.placeholders, translated |-> t,
                 value |-> _restore_formatting(t, p.placeholders)]
  /\ pc' = "returned"
  /\ UNCHANGED <<fs, target_lang, backup_option, queue, idx, patches, ret, hist, inp, scanv, results, cache>>

NextFormat == CallFormat

SpecFormat == InitFormat /\ [][NextFormat]_vars

\* ---- translate ----
\* The most calls of translate in one run.
MaxCalls == 2

\* Line 369: the source language of every call.
SourceLang == <<"e","n">>

\* Lines 353-354: the google_target of zh_tw and of a language without
\* terminology.
T_zh_TW == <<"z","h","-","T","W">>
T_fr_fr == <<"f","r","-","f","r">>
TranslateTargets == {T_zh_TW, T_fr_fr}

\* The values of a resource translate is called with: None, blank texts, a
\* text made of a placeholder, and two texts with the same masked text.
TranslateTexts ==
  { JNull,
    JStr(<<>>),
    JStr(<<" ">>),
    JStr(<<"{","0","}">>),
    JStr(<<"T","i","n"," ","%","s">>),
    JStr(<<"T","i","n"," ","%","d">>) }

\* The texts the service answers for a masked text: nothing, or a text in the
\* target language that kept the opaque tokens, with spaces put inside them.
Answers(protected_text) == { <<>>, <<"u7FFB">> \o space_keys(protected_text, 1) }

\* cache_key in self.cache, self.cache[cache_key]: the cache is a dict, a
\* sequence of [key, value] with distinct keys.
InCache(c, key) == \E i \in 1..Len(c) : c[i].key = key

CacheValue(c, key) == c[CHOOSE i \in 1..Len(c) : c[i].key = key].value

NoReturns == [calls |-> 0, earlier |-> {}, returns |-> {}]

\* A return of translate for a non-blank text, as the history records it.
Return(key, text, value, translated) ==
  [key |-> key, text |-> text, value |-> value, translated |-> translated]

Returning(h, r) == [h EXCEPT !.earlier = h.returns, !.returns = h.returns \cup {r}]

InitTranslate ==
  /\ fs = <<>>
  /\ target_lang = <<>>
  /\ backup_option = "keep"
  /\ queue = <<>>
  /\ idx = 0
  /\ patches = <<>>
  /\ ret = NoCall
  /\ future_to_jar = {}
  /\ mods_to_translate = <<>>
  /\ mods_skipped = <<>>
  /\ results = NoResults
  /\ cache = <<>>
  /\ pc = "call"
  /\ inp = NoCall
  /\ out = NoCall
  /\ hist = NoReturns

\* Lines 137-146: a call of translate up to the remote call.
translate_begins ==
  /\ pc = "call"
  /\ hist.calls < MaxCalls
  /\ \E text \in TranslateTexts, tl \in TranslateTargets :
       /\ inp' = [fn |-> "translate", text |-> text, target |-> tl]
       /\ IF IsBlank(text)
          THEN /\ out' = [fn |-> "translate", how |-> "blank", value |-> text,
                          remote |-> FALSE, cache_read |-> FALSE]
               /\ hist' = [hist EXCEPT !.calls = @ + 1]
               /\ pc' = "call"
          ELSE LET p   == _protect_formatting(text.s)
                   key == cache_key(SourceLang, tl, p.text)
               IN  IF InCache(cache, key)
                   THEN LET value == JStr(_restore_formatting(CacheValue(cache, key), p.placeholders))
                        IN  /\ out' = [fn |-> "translate", how |-> "cache", value |-> value,
                                       remote |-> FALSE, cache_read |-> TRUE]
                            /\ hist' = Returning([hist EXCEPT !.calls = @ + 1],
                                                 Return(key, text, value, CacheValue(cache, key)))
                            /\ pc' = "call"
                   ELSE /\ out' = out
                        /\ hist' = [hist EXCEPT !.calls = @ + 1]
                        /\ pc' = "remote"
  /\ UNCHANGED <<fs, target_lang, backup_option, queue, idx, patches, ret, scanv, results, cache>>

\* Lines 159-160: the return of the fallback.
FallbackReturn ==
  LET p     == _protect_formatting(inp.text.s)
      key   == cache_key(SourceLang, inp.target, p.text)
      value == JStr(_restore_formatting(
                      _fallback_translate(p.text, fallback_lang(inp.target)), p.placeholders))
  IN  /\ out' = [fn |-> "translate", how |-> "fallback", value |-> value,
                 remote |-> TRUE, cache_read |-> TRUE]
      /\ hist' = Returning(hist, Return(key, inp.text, value, <<>>))
      /\ cache' = cache

\* A variant of remote_returns that does not write the cache.
remote_returns_uncached ==
  /\ pc = "remote"
  /\ LET p   == _protect_formatting(inp.text.s)
         key == cache_key(SourceLang, inp.target, p.text)
     IN  \E answer \in Answers(p.text) :
           LET translated == google_result(p.text, answer)
               value      == JStr(_restore_formatting(translated, p.placeholders))
           IN  IF translated # <<>>
               THEN /\ cache' = cache
                    /\ out' = [fn |-> "translate", how |-> "remote", value |-> value,
                               remote |-> TRUE, cache_read |-> TRUE]
                    /\ hist' = Returning(hist, Return(key, inp.text, value, translated))
               ELSE FallbackReturn
  /\ pc' = "call"
  /\ UNCHANGED <<fs, target_lang, backup_option, queue, idx, patches, ret, inp, scanv, results>>

\* Lines 148-151, and 159-160 when the result is empty: the remote call
\* returns.
remote_returns ==
  /\ pc = "remote"
  /\ LET p   == _protect_formatting(inp.text.s)
         key == cache_key(SourceLang, inp.target, p.text)
     IN  \E answer \in Answers(p.text) :
           LET translated == google_result(p.text, answer)
               value      == JStr(_restore_formatting(translated, p.placeholders))
           IN  IF translated # <<>>
               THEN /\ cache' = Append(cache, [key |-> key, value |-> translated])
                    /\ out' = [fn |-> "translate", how |-> "remote", value |-> value,
                               remote |-> TRUE, cache_read |-> TRUE]
                    /\ hist' = Returning(hist, Return(key, inp.text, value, translated))
               ELSE FallbackReturn
  /\ pc' = "call"
  /\ UNCHANGED <<fs, target_lang, backup_option, queue, idx, patches, ret, inp, scanv, results>>

\* Lines 148 and 152-160: the remote call raises (a network error, status
\* 429, a response that is not the expected JSON); every Exception is caught.
remote_raises ==
  /\ pc = "remote"
  /\ FallbackReturn
  /\ pc' = "call"
  /\ UNCHANGED <<fs, target_lang, backup_option, queue, idx, patches, ret, inp, scanv, results>>

NextTranslate ==
  \/ translate_begins
  \/ remote_returns
  \/ remote_raises

SpecTranslate == InitTranslate /\ [][NextTranslate]_vars

(***************************************************************************)
(* The classification policy as the specification words it (section 4.1),  *)
(* used to state C8, C9 and C10.                                           *)
(***************************************************************************)
\* The file name of an entry: what follows its last "/".
Basename(name) == SubSeq(name, LastSlash(name) + 1, Len(name))

\* An entry under a lang/ segment (any casing) that ends in .json.
IsLangEntry(name) ==
  /\ Contains(<<"/">> \o Lower(name), S_lang_dir)
  /\ EndsWith(Lower(name), S_json)

\* A base-language resource: a lang entry named en_us.json (any casing).
IsBaseResource(name) == IsLangEntry(name) /\ Lower(Basename(name)) = S_en_us_json

\* A lang entry named <targetLocale>.json (any casing of either).
IsTargetResource(name, tl) == IsLangEntry(name) /\ Lower(Basename(name)) = Lower(tl) \o S_json

\* The manifest exists and parses as an object that declares an API.
DeclaresApi(file) ==
  /\ InSeq(S_fabric_mod_json, namelist(file))
  /\ LET d == ReadEntry(file, S_fabric_mod_json) IN
     /\ d.t = "obj" /\ "custom" \in DOMAIN d.m
     /\ d.m["custom"].t = "obj" /\ "modmenu" \in DOMAIN d.m["custom"].m
     /\ d.m["custom"].m["modmenu"].t = "obj"
     /\ "api" \in DOMAIN d.m["custom"].m["modmenu"].m
     /\ d.m["custom"].m["modmenu"].m["api"] = JBool(TRUE)

\* The first base-language resource of the archive.
FirstBase(file) ==
  LET c == SelectSeq(namelist(file), IsBaseResource) IN ReadEntry(file, c[1])

\* The number of the first rule of the policy that matches (7: NeedsTranslation).
PolicyRule(jar, file, tl) ==
  LET names == namelist(file) IN
  IF \E i \in 1..Len(IGNORED_MODS) : Contains(Lower(jar), IGNORED_MODS[i]) THEN 1
  ELSE IF DeclaresApi(file) THEN 2
  ELSE IF ~\E i \in 1..Len(names) : IsBaseResource(names[i]) THEN 3
  ELSE IF \E i \in 1..Len(names) : IsTargetResource(names[i], tl) THEN 4
  ELSE IF FirstBase(file).t # "obj" \/ DOMAIN FirstBase(file).m \ MetaKeys = {} THEN 5
  ELSE IF ~( \/ Len(SelectSeq(names, IsLangEntry)) > 1
             \/ \E i \in 1..Len(names) : Contains(Lower(names[i]), S_textures_gui)
             \/ \E i \in 1..Len(names) : Contains(Lower(names[i]), S_patchouli_books)
             \/ \E i \in 1..Len(names) : Contains(Lower(names[i]), S_advancements) ) THEN 6
  ELSE 7

\* The rule a disposition of analyze_jar reports (0: a scan error, which is
\* none of the seven).
RuleOf(result) ==
  CASE result.msg = "ignored (core/library mod)" -> 1
    [] result.msg = "ignored (author marked as API)" -> 2
    [] result.msg = "missing en_us.json" -> 3
    [] result.msg = "already has <target_lang>.json" -> 4
    [] result.msg \in {"en_us.json has no translatable content", "en_us.json is malformed"} -> 5
    [] result.msg = "likely API/library (no content footprints)" -> 6
    [] result.msg = "needs translation" -> 7
    [] OTHER -> 0

Analyzed == pc = "returned" /\ inp.fn = "analyze_jar"

\* C8: analyze_jar returns the disposition of the first matching rule of the
\* seven-rule policy, and a manifest that is malformed or is no object with
\* the API declaration does not stop the later rules.  Stated on the tag of
\* the disposition, the only part consumed downstream (NeedsTranslation
\* exactly when rule 7 is the first to match), for base resources that are a
\* JSON object or no JSON at all; the inputs of C9 (an entry whose name only
\* ends with en_us.json), of C10 (a locale code not in lower case) and of C11
\* (an archive that cannot be opened) are left to those claims.
C8_FirstMatchingRule ==
  (/\ Analyzed
   /\ inp.file.complete
   /\ \A i \in 1..Len(inp.file.entries) :
        \/ inp.file.entries[i].name = P_manifest
        \/ /\ inp.file.entries[i].data.t \in {"obj", "raw"}
           /\ IsBaseName(inp.file.entries[i].name) => IsBaseResource(inp.file.entries[i].name)
   /\ inp.target = Lower(inp.target))
    => (out.status = 0) = (PolicyRule(inp.jar, inp.file, inp.target) = 7)

\* C9: a container with no base-language resource (no en_us.json under a
\* lang/ segment) is skipped, whatever the target locale.  Stated on the tag
\* of the disposition: the result is Skip.
C9_MissingBaseSkipped ==
  (/\ Analyzed
   /\ ~\E i \in 1..Len(inp.file.entries) : IsBaseResource(inp.file.entries[i].name))
    => out.status = 1

\* C10: a container that already holds <targetLocale>.json under lang/, in
\* any casing of the entry name or of the locale code, gets Skip.
C10_TargetPresentSkipped ==
  (/\ Analyzed
   /\ \E i \in 1..Len(inp.file.entries) : IsTargetResource(inp.file.entries[i].name, inp.target))
    => out.status = 1

(***************************************************************************)
(* C6 and C7: what a successful _patch_jar writes.                         *)
(***************************************************************************)
Patched == pc = "returned" /\ inp.fn = "_patch_jar"

EntrySet(entries) == {entries[i] : i \in 1..Len(entries)}

\* The patch set holds one entry, whose name no original entry has.
OneNewEntry ==
  /\ Len(inp.patches) = 1
  /\ \A i \in 1..Len(inp.src.entries) : inp.src.entries[i].name # inp.patches[1].name

\* A name that contains META-INF and ends in .SF, .RSA, .DSA or .EC, letters
\* compared without regard to case.
SignatureLike(name) ==
  /\ Contains(Lower(name), Lower(S_META_INF))
  /\ \E ext \in {S_SF, S_RSA, S_DSA, S_EC} : EndsWith(Lower(name), Lower(ext))

\* A code-signature entry: extension .SF, .RSA, .DSA or .EC under the
\* signature-metadata directory META-INF/.
CodeSignature(name) ==
  /\ Len(name) > Len(S_META_INF)
  /\ Upper(SubSeq(name, 1, Len(S_META_INF) + 1)) = S_META_INF \o <<"/">>
  /\ \E ext \in {S_SF, S_RSA, S_DSA, S_EC} : EndsWith(Upper(name), ext)

\* C6 as claimed: with one new entry in the patch set, the rewritten container
\* holds every original entry, name and bytes unchanged, plus the new entry,
\* and nothing else.
C6_AllOriginalsPlusNew ==
  (Patched /\ OneNewEntry)
    => /\ EntrySet(out.entries) = EntrySet(inp.src.entries) \cup {inp.patches[1]}
       /\ Len(out.entries) = Len(inp.src.entries) + 1

\* C6 as amended: with one new entry in the patch set, the rewritten container
\* holds every original entry that the signature filter does not drop, name
\* and bytes unchanged, plus the new entry, each once, and nothing else.
C6_UnsignedOriginalsPlusNew ==
  (Patched /\ OneNewEntry)
    => LET kept == {e \in EntrySet(inp.src.entries) : ~SignatureLike(e.name)} IN
       /\ EntrySet(out.entries) = kept \cup {inp.patches[1]}
       /\ Len(out.entries) = Cardinality(kept) + 1

\* C6 witness: a container with a signature entry and another entry was
\* patched with one new entry.
C6_Witness ==
  /\ Patched /\ OneNewEntry
  /\ \E e \in EntrySet(inp.src.entries) : SignatureLike(e.name)
  /\ \E e \in EntrySet(inp.src.entries) : ~SignatureLike(e.name) /\ e \in EntrySet(out.entries)
  /\ inp.patches[1] \in EntrySet(out.entries)

Returned == pc = "pm_return"

\* process_mod has returned after _patch_jar raised: before or while writing
\* the temporary archive, or on the move.
PatchFailed == Returned /\ hist.raised \in {"pm_patch", "pm_writing", "pm_move"}

\* The positions inside process_mod before its return.
InProcessMod ==
  pc \in {"pm_backup", "pm_copying", "pm_try", "pm_patch", "pm_writing", "pm_move", "pm_except"}

\* C1: when process_mod returns, the container is the fully patched one if it
\* reports success, and is byte-equal to its state before the call otherwise;
\* it is never in a third state.
C1_AtomicCommit ==
  Returned => fs[Cur].jar = (IF ret.success THEN hist.patched ELSE hist.pre)

\* C2 as claimed: after a failure injected into _patch_jar, a backup file of
\* the container exists when process_mod returns.
C2_BackupExistsAfterFailure ==
  PatchFailed => fs[Cur].backup # NoFile

\* C2 as amended: after a failure injected into _patch_jar, a backup existed
\* when the failure was caught, and when process_mod returns either it has
\* been moved back (no backup file is left and the container holds the bytes
\* the backup held) or, the move having failed, it is still there unchanged.
C2_BackupMovedBack ==
  PatchFailed =>
    /\ hist.bkAtExcept # NoFile
    /\ \/ fs[Cur].backup = NoFile /\ fs[Cur].jar = hist.bkAtExcept
       \/ fs[Cur].backup = hist.bkAtExcept

\* C2 witness: _patch_jar failed while writing the temporary archive or on
\* the move, and the complete backup was moved back over the container.
C2_Witness ==
  /\ PatchFailed
  /\ hist.raised \in {"pm_writing", "pm_move"}
  /\ hist.bkAtExcept # NoFile
  /\ hist.bkAtExcept.complete
  /\ fs[Cur].backup = NoFile
  /\ fs[Cur].jar = hist.bkAtExcept

\* C3: after an interrupt at any step, every container is whole, its backup
\* is absent or whole, and the container that was being processed is either
\* as it was before the call or fully patched with a backup on disk.
C3_InterruptConsistent ==
  (pc = "idle" /\ hist.exit = "interrupt") =>
    \A j \in Jars :
      /\ fs[j].jar.complete
      /\ fs[j].backup # NoFile => fs[j].backup.complete
      /\ j = hist.cur =>
           \/ fs[j].jar = hist.pre
           \/ fs[j].jar = hist.patched /\ fs[j].backup # NoFile

\* C4: after two or more completed _create_backup calls with no restore in
\* between, the first of which created the backup, the backup file holds the
\* container's bytes at the time of that first call.
C4_FirstBackupKept ==
  \A j \in Jars :
    hist.bk[j].calls = 2 =>
      /\ hist.bk[j].first # NoFile
      /\ fs[j].backup = hist.bk[j].first

\* C4 witness: a second _create_backup call was made on a container that had
\* been rewritten since the first, and the backup still holds the first bytes.
C4_Witness ==
  \E j \in Jars :
    /\ hist.bk[j].calls = 2
    /\ fs[j].backup = hist.bk[j].first
    /\ fs[j].jar.complete
    /\ fs[j].jar # hist.bk[j].first

\* C5: inside process_mod the file at the container's path changes only
\* when a backup of the container exists and the complete, non-empty patch
\* set has been built.
C5_WriteAfterBackupAndPatches ==
  [][ \A j \in Jars :
        (InProcessMod /\ fs'[j].jar # fs[j].jar)
          => (fs[j].backup # NoFile /\ hist.built /\ patches # <<>>) ]_vars

(***************************************************************************)
(* C11 to C13, C17 and C18: the scan and the batch.                        *)
(***************************************************************************)
\* scan_mods is about to return: as_completed has yielded every future.
ScanDone == pc = "scan" /\ future_to_jar = {}

\* The number of entries of a list of (jar, msg) that are about jar.
RECURSIVE CountJar(_, _)
CountJar(jar, list) ==
  IF Len(list) = 0 THEN 0
  ELSE (IF list[1][1] = jar THEN 1 ELSE 0) + CountJar(jar, Tail(list))

InList(x, list) == \E i \in 1..Len(list) : list[i] = x

\* A container that cannot be read as the classifier expects: its archive is
\* truncated, or its fabric.mod.json parses to a JSON value that is no object.
FailsToRead(file) ==
  \/ ~file.complete
  \/ \E i \in 1..Len(file.entries) :
       /\ file.entries[i].name = S_fabric_mod_json
       /\ file.entries[i].data.t \notin {"raw", "obj"}

\* C11: no exception of analyze_jar reaches scan_mods; a container that
\* fails to be opened or read gets the disposition Skip('scan error: ...'),
\* and every container of the folder gets a disposition.
C11_ScanErrorContained ==
  /\ hist.exit # "scan raised"
  /\ ScanDone =>
       \A j \in Jars :
         /\ CountJar(j, mods_to_translate) + CountJar(j, mods_skipped) >= 1
         /\ FailsToRead(fs[j].jar) => InList(<<j, "scan error">>, mods_skipped)

\* C11 witness: the scan is over, one container failed to be read and
\* another one is in mods_to_translate.
C11_Witness ==
  /\ ScanDone
  /\ \E j, k \in Jars :
       /\ FailsToRead(fs[j].jar)
       /\ InList(<<j, "scan error">>, mods_skipped)
       /\ CountJar(k, mods_to_translate) = 1

\* C12: when scan_mods returns, whatever the order in which the tasks
\* completed, every container of the folder is in exactly one of the two
\* lists, once, in mods_to_translate iff analyze_jar gives it status 0, and
\* the lists hold nothing else.
C12_ExactlyOneResult ==
  ScanDone =>
    /\ \A j \in Jars :
         /\ CountJar(j, mods_to_translate) + CountJar(j, mods_skipped) = 1
         /\ CountJar(j, mods_to_translate) = 1
              <=> analyze_jar(j, fs[j].jar, target_lang).status = 0
    /\ \A i \in 1..Len(mods_to_translate) : mods_to_translate[i][1] \in Jars
    /\ \A i \in 1..Len(mods_skipped) : mods_skipped[i][1] \in Jars

\* C12 witness: the scan is over with both lists filled, the second
\* container by name having completed before the first.
C12_Witness ==
  /\ ScanDone
  /\ Len(mods_to_translate) = 2
  /\ mods_to_translate[1][1] = J_modb
  /\ mods_to_translate[2][1] = J_ModA

\* C13: a run that ended otherwise than by the user's interrupt has recorded
\* every container it had queued, as a success or as a failure with a reason.
C13_BatchContinues ==
  (pc = "idle" /\ hist.exit \in {"done", "error"}) =>
    \A i \in 1..Len(hist.queued) :
      \/ InList(hist.queued[i], hist.results.success)
      \/ CountJar(hist.queued[i], hist.results.failed) = 1

\* C17 as claimed: a backup file is removed only by a restore or by the
\* cleanup that follows a successful patch of its container.
C17_RemovedOnlyAfterSuccess ==
  [][ \A j \in Jars :
        (fs[j].backup # NoFile /\ fs'[j].backup = NoFile) =>
          \/ pc \in {"idle", "pm_except"} /\ fs'[j].jar = fs[j].backup
          \/ pc = "pm_return" /\ j = Cur /\ ret.success ]_vars

\* C17 as amended: a backup file is removed only by a restore (the restore
\* mode, or the restore of process_mod after an exception), which moves it
\* over the container, or by the cleanup of run_translate_mode, after a
\* successful patch under 'delete_success' and after any result of
\* process_mod under 'delete_all'; under 'keep' the cleanup removes nothing.
C17_RemovedByRestoreOrCleanup ==
  [][ \A j \in Jars :
        (fs[j].backup # NoFile /\ fs'[j].backup = NoFile) =>
          \/ pc \in {"idle", "pm_except"} /\ fs'[j].jar = fs[j].backup
          \/ /\ pc = "pm_return" /\ j = Cur
             /\ fs'[j].jar = fs[j].jar
             /\ \/ backup_option = "delete_all"
                \/ backup_option = "delete_success" /\ ret.success ]_vars

\* C17 witness: the cleanup has removed the backup of a container whose
\* processing failed.
C17_Witness ==
  /\ pc = "loop"
  /\ hist.removed = "cleanup after failure"
  /\ fs[hist.cur].backup = NoFile

\* The positions of run_translate_mode's loop and of process_mod.
InLoop == pc \in {"loop", "pm_return"} \/ InProcessMod

\* C18: while a classification task is outstanding no file of the folder
\* changes; scan_mods has returned with every task completed before the loop
\* begins; and in the loop the containers before the current one have their
\* results recorded, the current one is the only one between the start and
\* the end of its process_mod, and the ones after it have not been touched.
C18_ScanThenOneAtATime ==
  /\ [][future_to_jar # {} => fs' = fs]_vars
  /\ [](InLoop =>
          /\ future_to_jar = {}
          /\ Len(results.success) + Len(results.failed) = idx - 1
          /\ \A k \in 1..Len(queue) :
               /\ k < idx => \/ InList(queue[k], results.success)
                             \/ CountJar(queue[k], results.failed) = 1
               /\ (k > idx \/ (k = idx /\ pc = "loop")) =>
                    /\ ~InList(queue[k], results.success)
                    /\ CountJar(queue[k], results.failed) = 0
                    /\ FirstRun => fs[queue[k]].backup = NoFile /\ fs[queue[k]].tmp = NoFile)

\* C18 witness: the second container of the queue is about to be replaced,
\* the first one having completed.
C18_Witness ==
  /\ pc = "pm_move"
  /\ idx = 2
  /\ Len(results.success) + Len(results.failed) = 1

(***************************************************************************)
(* C20: the denylist.                                                      *)
(***************************************************************************)
\* The file name contains a denylist identifier, letters compared without
\* regard to case.
Denylisted(jar_name) ==
  \E i \in 1..Len(IGNORED_MODS) : Contains(Lower(jar_name), Lower(IGNORED_MODS[i]))

\* C20: a container whose file name contains a denylist identifier gets
\* Skip('ignored (core/library mod)') whatever its archive holds, and when
\* the archive cannot be opened too (never a scan error).
C20_DenylistBeforeOpening ==
  (Analyzed /\ Denylisted(inp.jar))
    => out = Result(inp.jar, 1, "ignored (core/library mod)")

\* C20 witness: a container named Fabric-API-x.jar whose archive is
\* truncated was classified as ignored.
C20_Witness ==
  /\ Analyzed
  /\ Denylisted(inp.jar)
  /\ inp.jar # Lower(inp.jar)
  /\ ~inp.file.complete
  /\ out.msg = "ignored (core/library mod)"

(***************************************************************************)
(* C16: _restore_backup.                                                   *)
(***************************************************************************)
Restored == pc = "returned" /\ inp.fn = "_restore_backup"

\* The folder except the backup and the container paths of jar.
OtherFiles(folder, jar) ==
  [j \in DOMAIN folder |-> IF j = jar THEN [tmp |-> folder[j].tmp] ELSE folder[j]]

Formatted == pc = "returned" /\ out.fn = "_restore_formatting"

\* C14: for every text made of recognized placeholder tokens and ordinary
\* text, _restore_formatting(_protect_formatting(t)) is t, also when spaces
\* were put between the underscores and the FMT<n> body of the opaque tokens
\* before restoring.
C14_RoundTrip == Formatted => out.value = inp.text

(***************************************************************************)
(* C15 and C19: translate, its fallback and its cache.                     *)
(***************************************************************************)
TranslateReturned == pc = "call" /\ out.fn = "translate"

\* The fallback as section 4.2 words it: the terminology substitution with
\* the placeholders kept, or the tagged original text when the substitution
\* changed nothing and the text has alphabetic content.
FallbackAsSpecified(text, tl) ==
  LET p      == _protect_formatting(text)
      result == substitute_terminology(p.text, tl)
  IN  IF result = p.text /\ HasLetter(text)
      THEN Tagged(text, tl)
      ELSE _restore_formatting(result, p.placeholders)

\* C15: when the remote call fails (it raises or answers nothing) for a
\* non-blank text, translate returns the terminology substitution, or the
\* tagged original text when the substitution changed nothing and the text
\* has alphabetic content.
C15_FallbackValue ==
  (TranslateReturned /\ out.how = "fallback")
    => out.value = JStr(FallbackAsSpecified(inp.text.s, fallback_lang(inp.target)))

\* The blank part of C19: a blank, empty or None input is returned unchanged,
\* without a remote call and without reading or writing the cache.
BlankReturnedUnchanged ==
  /\ [](TranslateReturned /\ IsBlank(inp.text)
          => out.value = inp.text /\ ~out.remote /\ ~out.cache_read)
  /\ [][IsBlank(inp'.text) => cache' = cache]_vars

\* C19 as stated: after translate has returned for a non-blank text, a later
\* call with the same key returns the same result without a remote call; a
\* blank input is returned unchanged without the network and the cache.
C19_SameKeySameResult ==
  /\ [](TranslateReturned /\ ~IsBlank(inp.text)
          => \A r \in hist.earlier :
               r.key = cache_key(SourceLang, inp.target, _protect_formatting(inp.text.s).text)
                 => out.value = r.value /\ ~out.remote)
  /\ BlankReturnedUnchanged

\* C19, amended: after translate has returned a result of the remote call, a
\* later call with the same key makes no remote call and returns the cached
\* text restored with its own placeholders, which is the same result when
\* the text is the same; a blank input is returned unchanged without the
\* network and the cache.
C19_RemoteResultCached ==
  /\ [](TranslateReturned /\ ~IsBlank(inp.text)
          => LET p == _protect_formatting(inp.text.s) IN
             \A r \in hist.earlier :
               (r.key = cache_key(SourceLang, inp.target, p.text) /\ r.translated # <<>>)
                 => /\ ~out.remote
                    /\ out.value = JStr(_restore_formatting(r.translated, p.placeholders))
                    /\ (r.text = inp.text => out.value = r.value))
  /\ BlankReturnedUnchanged

\* A call answered from the cache for a text other than the one the cached
\* result was obtained for.
C19_Witness ==
  /\ TranslateReturned
  /\ out.how = "cache"
  /\ \E r \in hist.earlier :
       /\ r.key = cache_key(SourceLang, inp.target, _protect_formatting(inp.text.s).text)
       /\ r.text # inp.text

(***************************************************************************)
(* C24: the classifier and process_mod.                                    *)
(***************************************************************************)
\* C24: process_mod of a container the scan queued finds a base resource and
\* builds a patch set that is not empty: it never returns "No en_us.json
\* found (internal check)." or "No translatable content found.".
C24_QueuedIsTranslated ==
  Returned => ret.msg \notin {"No en_us.json found (internal check).",
                              "No translatable content found."}

(***************************************************************************)
(* C23: the order of the entries _patch_jar writes.                        *)
(***************************************************************************)
\* The names of the original entries, and of those the rewrite retains.
OriginalNames == {inp.src.entries[i].name : i \in 1..Len(inp.src.entries)}

RetainedNames == {n \in OriginalNames : ~SignatureLike(n)}

\* The first n entries written are the retained originals, each once, in
\* ascending order of name, with the patch's bytes when the patch set names
\* them and their own bytes otherwise.
RetainedFirst(n) ==
  /\ n <= Len(out.entries)
  /\ {out.entries[i].name : i \in 1..n} = RetainedNames
  /\ \A i, j \in 1..n : i < j => StrLess(out.entries[i].name, out.entries[j].name)
  /\ \A i \in 1..n :
       out.entries[i].data =
         IF InPatches(out.entries[i].name, inp.patches)
         THEN PatchData(out.entries[i].name, inp.patches)
         ELSE ReadEntry(inp.src, out.entries[i].name)

\* The entries written after the first n are the patch entries with a name
\* outside names, in the order of the patch set.
ThenPatches(n, names) ==
  SubSeq(out.entries, n + 1, Len(out.entries))
    = SelectSeq(inp.patches, LAMBDA q : q.name \notin names)

FilesReturned == pc = "returned" /\ out.fn = "_translate_files_in_memory"

\* The base-language resources of the container and what json.load makes of
\* each.
BaseResources == {out.files[i] : i \in 1..Len(out.files)}

ResourceData(p) == ReadEntry(inp.file, p)

\* A resource that fails (a parse error, JSON that is no object), one with at
\* least one translatable key, and one with none.
FailsToProcess(p) == ResourceData(p).t # "obj"

TranslatableKeys(p) == DOMAIN ResourceData(p).m \ MetaKeys

HasTranslatableKeys(p) == ~FailsToProcess(p) /\ TranslatableKeys(p) # {}

\* <same directory>/<targetLocale>.json
SameDirTarget(p) == SubSeq(p, 1, LastSlash(p)) \o inp.target \o S_json

\* The patch entries of a name, and the messages about a resource.
EntriesAt(name) == {i \in 1..Len(out.contents) : out.contents[i].name = name}

MessagesAbout(p) == {i \in 1..Len(out.messages) : out.messages[i].path = p}

\* Every failing resource adds one message, which reports the failure, and
\* a resource without translatable keys adds none.
FailuresReported ==
  \A p \in BaseResources :
    /\ FailsToProcess(p)
         => /\ Cardinality(MessagesAbout(p)) = 1
            /\ \A i \in MessagesAbout(p) : ~out.messages[i].ok
    /\ (~FailsToProcess(p) /\ TranslatableKeys(p) = {}) => MessagesAbout(p) = {}

\* C21 as claimed: a failing resource adds a message and no patch entry, a
\* resource without translatable keys adds no entry, and every resource with
\* a translatable key adds exactly one entry, at <same directory>/<target
\* locale>.json: the patch set has one entry for each such resource.
C21_OneEntryEach ==
  FilesReturned
    => /\ FailuresReported
       /\ \A p \in BaseResources :
            HasTranslatableKeys(p) => Cardinality(EntriesAt(SameDirTarget(p))) = 1
       /\ Len(out.contents) = Cardinality({p \in BaseResources : HasTranslatableKeys(p)})

\* The last resource with a translatable key, in the order of the archive,
\* whose target is name.
LastResourceAt(name) ==
  out.files[CHOOSE i \in 1..Len(out.files) :
              /\ HasTranslatableKeys(out.files[i]) /\ SameDirTarget(out.files[i]) = name
              /\ \A j \in (i + 1)..Len(out.files) :
                   ~(HasTranslatableKeys(out.files[j]) /\ SameDirTarget(out.files[j]) = name)]

\* C21 as amended: a failing resource adds a message and the others are
\* still processed; the patch set has exactly one entry for each path
\* <same directory>/<target locale>.json of a resource with a translatable
\* key and no other entry, and where several such resources share the
\* directory the entry is the one of the last of them.
C21_OneEntryEachDirectory ==
  FilesReturned
    => /\ FailuresReported
       /\ {out.contents[i].name : i \in 1..Len(out.contents)}
            = {SameDirTarget(p) : p \in {q \in BaseResources : HasTranslatableKeys(q)}}
       /\ \A i \in 1..Len(out.contents) :
            /\ EntriesAt(out.contents[i].name) = {i}
            /\ DOMAIN out.contents[i].data.m
                 = MetaKeys \cup TranslatableKeys(LastResourceAt(out.contents[i].name))

\* C21 witness: a container whose first base resource fails, followed by one
\* with a translatable key, which has its entry, and one without translatable
\* keys.
C21_Witness ==
  /\ FilesReturned
  /\ Len(out.files) = 3
  /\ FailsToProcess(out.files[1])
  /\ \E i \in 2..3 : /\ HasTranslatableKeys(out.files[i])
                     /\ SameDirTarget(out.files[i]) # SameDirTarget(out.files[1])
                     /\ EntriesAt(SameDirTarget(out.files[i])) # {}
  /\ \E i \in 2..3 : ~FailsToProcess(out.files[i]) /\ TranslatableKeys(out.files[i]) = {}
  /\ Len(out.contents) = 1

\* C22: the keys of a produced target resource are the 3 metadata keys plus
\* every other key of the base resource; the metadata keys carry the values of
\* the registry for the target locale, and every other key carries a string.
C22_KeysAndStrings ==
  FilesReturned
    => \A i \in 1..Len(out.contents) :
         LET target == out.contents[i].data
             base   == ResourceData(LastResourceAt(out.contents[i].name))
         IN  /\ DOMAIN target.m = MetaKeys \cup DOMAIN base.m
             /\ \A k \in MetaKeys : target.m[k] = TStr(k, inp.target)
             /\ \A k \in DOMAIN base.m \ MetaKeys : target.m[k].t = "str"

====
